---- MODULE Spec2Model ----
(***************************************************************************)
(* Aircraft defect viewer: the windowed data-loading core.                 *)
(*                                                                         *)
(* The repository holds three snapshots of the App:                        *)
(*   "hooks1"  frontend/src/App.jsx:43-229 with hooks/useDefects.js        *)
(*             (queryFn = defectApi.fetchDefects, page_size: 50 passed,    *)
(*             infinite query without keepPreviousData);                   *)
(*   "hooks2"  unnamed/part_006 with unnamed/part_002 (queryFn =           *)
(*             dataService.getDefects, no page_size passed, both queries   *)
(*             with keepPreviousData: true);                               *)
(*   "effect"  frontend/src/App.jsx:275-398 (useEffect + loadDefects).     *)
(* A fourth kind of behaviour, "fetcher", follows one invocation of the    *)
(* page fetcher (defectApi.fetchDefects or dataService.getDefects) through *)
(* its calls to the data collaborators.                                    *)
(* The hooks snapshots run on the query client of main.jsx (retry: 2); the *)
(* query client's behaviour for the options the hooks pass is part of the  *)
(* model (query cache per key, observers, retryer, keepPreviousData).      *)
(* A behaviour follows one snapshot with the table switch (virtualMode)    *)
(* fixed; the two queries of the hooks snapshots have different keys and   *)
(* share nothing but the filter, so only the displayed one is followed.    *)
(* All events happen within the queries' staleTime (5 minutes) and the     *)
(* remote dataset does not change during a session.                        *)
(***************************************************************************)
EXTENDS Integers, Sequences, FiniteSets, TLC

VARIABLES
  variant,      \* the App snapshot this behaviour follows
  virtualMode,  \* App state: virtual scrolling (infinite) or pagination
  filters,      \* App state: the active filter
  page,         \* App state (hooks snapshots): the requested page
  cache,        \* query client: the state of each query, by key
  prevResult,   \* query observer: previousQueryResult (keepPreviousData)
  view,         \* the observer result of the last render (the tables' props)
  net,          \* the calls whose response has not arrived yet
  failures,     \* the number of calls that have failed so far
  st,           \* the React state of the component followed (useEffect App, widgets)
  fx,           \* one invocation of the page fetcher, step by step
  ev            \* the last event handled

vars == <<variant, virtualMode, filters, page, cache, prevResult, view, net, failures, st, fx, ev>>

-----------------------------------------------------------------------------
(* Bounds of the model *)

DatasetSize == 123
MaxPage == 3
MaxFailures == 3
MaxIgnored == 1
OtherPageSize == 20
MaxChanges == 4
MaxTime == 800
Step == 100
TablePageSize == 2
MaxToggles == 3
MaxRendered == 3
MaxRequests == 3
MaxChunks == 3
MaxRows == 2
SpacingHours == 7
MaxRefreshes == 1
MaxBatches == 3
RetryTick == 1000
MaxClock == 7000
MaxAttemptIndex == 6

(* Program constants *)

PAGE_SIZE == 50
threshold == 10
retry == 2
delay == 300
MinSearchLength == 2
ROW_HEIGHT == 40
ExpandedExtra == 140
EarlyRowHeight == 60
EarlyExpandedHeight == 200
InsightsRetry == 1
RowLimit == 100
ResultCap == 50
batchSize == 1000
pageSize == 1000

-----------------------------------------------------------------------------
(* The remote dataset and the data collaborator's range query *)

Min(a, b) == IF a < b THEN a ELSE b

Filter(a, s) == [aircraft_registration |-> a, severity |-> s]

NoFilter == Filter("", "")

FilterSet == {NoFilter, Filter("", "High")}

\* the filters a fetcher invocation is followed with
FetcherFilters == FilterSet \cup {Filter("OH-LZA", ""), Filter("OH-LZB", "High")}

\* rows are numbered most recent first; a row's id is its number
AllRows == [i \in 1..DatasetSize |-> i]

Severity(r) == IF r % 2 = 0 THEN "High" ELSE "Low"

Registration(r) == IF r <= 2 * PAGE_SIZE THEN "OH-LZA" ELSE "OH-LZB"

\* query.eq(...) is added only for a non-empty filter field
Matches(r, f) ==
  /\ (f.aircraft_registration # "" => Registration(r) = f.aircraft_registration)
  /\ (f.severity # "" => Severity(r) = f.severity)

\* the rows a query with filter f selects, ordered by reported_at descending
RowsOf == [f \in FetcherFilters |-> SelectSeq(AllRows, LAMBDA r : Matches(r, f))]

Rows(f) == RowsOf[f]

\* a page_size the caller does not pass
Absent == 0

\* the fetcher's default for a missing page_size
EffectiveSize(s) == IF s = Absent THEN PAGE_SIZE ELSE s

\* a page rule whose has_more also counts the row at the end of the range
InclusiveResponse(f, p, s) ==
  LET size == EffectiveSize(s)
      offset == (p - 1) * size
      count == Len(Rows(f))
  IN [data |-> SubSeq(Rows(f), offset + 1, Min(offset + size, count)),
      total |-> count,
      page |-> p,
      page_size |-> size,
      has_more |-> (offset + size) <= count]

\* the page the fetcher returns on success
Response(f, p, s) ==
  LET size == EffectiveSize(s)
      offset == (p - 1) * size
      count == Len(Rows(f))
  IN [data |-> SubSeq(Rows(f), offset + 1, Min(offset + size, count)),
      total |-> count,
      page |-> p,
      page_size |-> size,
      has_more |-> (offset + size) < count]

-----------------------------------------------------------------------------
(* Query client *)

\* the infinite query of a filter has p = 0, the paginated query of (f, p) has p
Key(f, p) == [f |-> f, p |-> p]

QueryKeys ==
  {Key(f, p) : f \in FilterSet, p \in IF virtualMode THEN {0} ELSE 1..MaxPage}

\* param: the page the running (or last) fetch asks for; running: an attempt
\* of the fetch is in flight (otherwise a fetching query sleeps before its
\* next attempt)
QueryInit ==
  [pages |-> <<>>, status |-> "loading", fetchStatus |-> "idle",
   direction |-> "none", param |-> 0, failureCount |-> 0, hasError |-> FALSE,
   running |-> FALSE, retryCancelled |-> FALSE]

\* the key the displayed query observer watches
CurrentKey(f, p) == IF virtualMode THEN Key(f, 0) ELSE Key(f, p)

ObservedKey == CurrentKey(filters, page)

\* hooks that never keep the previous result
NoKeepPreviousData(k) == FALSE

\* keepPreviousData as the hook passes it
KeepPreviousData(k) ==
  IF k.p = 0 THEN variant = "hooks2" ELSE TRUE

\* the page size the hook passes to the fetcher
\* a hook that asks for pages of another size
ShortPageSize == OtherPageSize

HookPageSize == IF variant = "hooks1" THEN 50 ELSE Absent

\* a page-number rule that asks for the last loaded page again
RepeatLastPage(pages) ==
  IF ~pages[Len(pages)].has_more THEN 0 ELSE Len(pages)

getNextPageParam(pages) ==
  LET lastPage == pages[Len(pages)]
  IN IF ~lastPage.has_more THEN 0
     ELSE IF variant = "hooks1" THEN lastPage.page + 1
     ELSE Len(pages) + 1

hasNextPage(pages) == pages # <<>> /\ getNextPageParam(pages) # 0

RECURSIVE flatMap(_)
flatMap(pages) ==
  IF pages = <<>> THEN <<>> ELSE pages[1].data \o flatMap(Tail(pages))

DefaultPagination == [page |-> 1, pageSize |-> 50, total |-> 0, hasMore |-> FALSE]

\* the rows App hands to the table: the pages of result r flattened
defects(r) == flatMap(r.pages)

\* the observer's result for query state q, and what App derives from it
CreateResult(k, q, prev) ==
  LET keep == /\ KeepPreviousData(k)
              /\ q.pages = <<>>
              /\ prev.isSuccess
              /\ q.status # "error"
      pages == IF keep THEN prev.pages ELSE q.pages
  IN [pages |-> pages,
      isSuccess |-> IF keep THEN TRUE ELSE q.status = "success",
      isPreviousData |-> keep,
      hasNextPage |-> IF k.p = 0 THEN hasNextPage(q.pages) ELSE FALSE,
      isFetchingNextPage |-> q.fetchStatus = "fetching" /\ q.direction = "forward",
      error |-> q.hasError,
      pagination |->
        IF k.p # 0 /\ pages # <<>>
        THEN [page |-> pages[1].page, pageSize |-> pages[1].page_size,
              total |-> pages[1].total, hasMore |-> pages[1].has_more]
        ELSE DefaultPagination]

CurrentResult == CreateResult(ObservedKey, cache[ObservedKey], prevResult)

\* App has rendered the observer's current result. The observer notifies in
\* a microtask and React renders on it, so event handlers, timers and
\* responses, which are tasks, find the result rendered; the list can call
\* onItemsRendered again within one task, before that render
Rendered == view = CurrentResult

NoPrev == [pages |-> <<>>, isSuccess |-> FALSE]

Hooks == {"hooks1", "hooks2"}

\* the state of the parts a behaviour does not follow
NoState == [loading |-> FALSE]

NoFetch == [pc |-> "none"]

\* a call of the page fetcher made by a fetch of query k in direction dir;
\* live: the query still waits for it (a silently cancelled fetch's call stays
\* in flight, and its result is ignored)
Call(k, p, dir) ==
  [key |-> k, page |-> p, page_size |-> HookPageSize, direction |-> dir,
   live |-> TRUE]

Event(op, v, fetched) == [op |-> op, v |-> v, fetched |-> fetched]

\* any event but a call of onItemsRendered
Other == Event("other", 0, FALSE)

\* the page an initial load of query k asks for (pageParam = 1, or the key's page)
FirstPage(k) == IF k.p = 0 THEN 1 ELSE k.p

\* Query's reducer, action 'fetch': data and error are kept when there is data
FetchAction(q, dir, p) ==
  [q EXCEPT !.fetchStatus = "fetching", !.direction = dir, !.param = p,
            !.failureCount = 0, !.running = TRUE, !.retryCancelled = FALSE,
            !.hasError = IF q.pages = <<>> THEN FALSE ELSE q.hasError,
            !.status = IF q.pages = <<>> THEN "loading" ELSE q.status]

\* Query's reducer, action 'success'
SuccessAction(q, pages) ==
  [q EXCEPT !.pages = pages, !.status = "success", !.fetchStatus = "idle",
            !.direction = "none", !.failureCount = 0, !.hasError = FALSE,
            !.running = FALSE, !.retryCancelled = FALSE]

\* an error transition that leaves the query fetching
ErrorStillFetching(q) == [q EXCEPT !.status = "error", !.hasError = TRUE]

\* Query's reducer, action 'error'
ErrorAction(q) ==
  [q EXCEPT !.status = "error", !.hasError = TRUE, !.fetchStatus = "idle",
            !.direction = "none", !.running = FALSE, !.retryCancelled = FALSE]

\* a retryer that retries whatever the failure count
AlwaysRetry(q) == ~q.retryCancelled

\* the retryer after a failed attempt: sleep before the next one, or give up
ShouldRetry(q) == q.failureCount < retry /\ ~q.retryCancelled

FailedAttempt(q) ==
  IF ShouldRetry(q)
  THEN [q EXCEPT !.failureCount = q.failureCount + 1, !.running = FALSE]
  ELSE ErrorAction([q EXCEPT !.failureCount = q.failureCount + 1])

\* Query.removeObserver: queryFn never reads the abort signal, so a running
\* fetch goes on and only its retries are cancelled
RemoveObserver(c, k) ==
  IF c[k].fetchStatus = "fetching"
  THEN [c EXCEPT ![k].retryCancelled = TRUE]
  ELSE c

\* QueryObserver.setOptions on a key change: the new query is fetched when it
\* is stale, which within staleTime means it has no data
MustFetch(c, k) == c[k].pages = <<>> /\ c[k].fetchStatus = "idle"

AddObserver(c, k) ==
  IF MustFetch(c, k) THEN [c EXCEPT ![k] = FetchAction(c[k], "none", FirstPage(k))]
  ELSE IF c[k].pages = <<>>
  THEN [c EXCEPT ![k].retryCancelled = FALSE]   \* deduplicated, continueRetry
  ELSE c

\* the observer moves from the query it watches to query kNew
SwitchQuery(kNew) ==
  LET c1 == RemoveObserver(cache, ObservedKey)
  IN /\ cache' = AddObserver(c1, kNew)
     /\ prevResult' = [pages |-> CurrentResult.pages,
                       isSuccess |-> CurrentResult.isSuccess]
     /\ net' = IF MustFetch(c1, kNew)
               THEN net \cup {Call(kNew, FirstPage(kNew), "none")} ELSE net
     /\ view' = CreateResult(kNew, cache'[kNew], prevResult')

\* App.handleFilterChange: setFilters(newFilters); setPage(1)
handleFilterChange(f) ==
  /\ variant \in Hooks
  /\ Rendered
  /\ filters' = f
  /\ page' = 1
  /\ IF CurrentKey(f, 1) = ObservedKey
     THEN UNCHANGED <<cache, prevResult, net, view>>
     ELSE SwitchQuery(CurrentKey(f, 1))
  /\ ev' = Other
  /\ UNCHANGED <<variant, virtualMode, failures, st, fx>>

\* Query.cancel({ silent: true }): the call in flight is no longer waited for
Abandon(n, k) ==
  {IF c.key = k /\ c.live THEN [c EXCEPT !.live = FALSE] ELSE c : c \in n}

\* InfiniteQueryObserver.fetchNextPage(): cancelRefetch defaults to true
fetchNextPage ==
  LET k == ObservedKey
      q == cache[k]
  IN IF q.fetchStatus # "idle" /\ q.pages = <<>>
     THEN \* no data yet: the running fetch's promise is returned
          /\ cache' = [cache EXCEPT ![k].retryCancelled = FALSE]
          /\ UNCHANGED net
     ELSE IF q.pages = <<>>
     THEN /\ cache' = [cache EXCEPT ![k] = FetchAction(q, "forward", FirstPage(k))]
          /\ net' = net \cup {Call(k, FirstPage(k), "forward")}
     ELSE IF getNextPageParam(q.pages) = 0
     THEN \* nothing to fetch: fetchPage resolves with the pages it has
          /\ cache' = [cache EXCEPT ![k] = SuccessAction(q, q.pages)]
          /\ net' = Abandon(net, k)
     ELSE \* a running fetch is cancelled silently, then the fetch starts
          /\ Cardinality({c \in Abandon(net, k) : ~c.live}) <= MaxIgnored
          /\ cache' = [cache EXCEPT ![k] =
                        FetchAction(q, "forward", getNextPageParam(q.pages))]
          /\ net' = Abandon(net, k)
                      \cup {Call(k, getNextPageParam(q.pages), "forward")}

\* a trigger that waits for an index past the last row
PastWindowEnd(v) ==
  /\ view.hasNextPage
  /\ ~view.isFetchingNextPage
  /\ v >= Len(defects(view))

shouldLoadMore(v) ==
  /\ view.hasNextPage
  /\ ~view.isFetchingNextPage
  /\ v >= Len(defects(view)) - threshold

\* last visible indexes the list reports: just below and at the threshold
VisibleStops(n) == {n - threshold - 1, n - threshold} \cap (0..n - 1)

\* VirtualizedDefectTable.onItemsRendered({ visibleStopIndex })
onItemsRendered(v) ==
  /\ variant \in Hooks
  /\ virtualMode
  /\ defects(view) # <<>>
  /\ IF shouldLoadMore(v) THEN fetchNextPage ELSE UNCHANGED <<cache, net>>
  /\ ev' = Event("onItemsRendered", v,
                 Cardinality(net') > Cardinality(net))
  /\ UNCHANGED <<variant, virtualMode, filters, page, prevResult, view, failures, st, fx>>

\* the pages TablePagination lets the user go to from the page it shows
Reachable(pg) ==
  LET lastPage == (pg.total + pg.pageSize - 1) \div pg.pageSize
  IN {n \in {pg.page - 1, pg.page + 1} : n >= 1 /\ n <= lastPage /\ n <= MaxPage}

\* DefectTable.handleChangePage -> App.handlePageChange: setPage(newPage)
handlePageChange(newPage) ==
  /\ variant \in Hooks
  /\ Rendered
  /\ ~virtualMode
  /\ newPage \in Reachable(view.pagination)
  /\ page' = newPage
  /\ IF CurrentKey(filters, newPage) = ObservedKey
     THEN UNCHANGED <<cache, prevResult, net, view>>
     ELSE SwitchQuery(CurrentKey(filters, newPage))
  /\ ev' = Other
  /\ UNCHANGED <<variant, virtualMode, filters, failures, st, fx>>

\* a dispatch that hands every outcome to the query observed at arrival
ObservedQueryOf(c) == ObservedKey

\* the query whose fetch made call c, and whose state its outcome is
\* dispatched to: the one of the query key the hook was called with
QueryOf(c) == c.key

\* the response of call c arrives: the fetcher resolved (ok) or threw
Arrive(c, ok) ==
  /\ variant \in Hooks
  /\ Rendered
  /\ c \in net
  /\ ~ok => failures < MaxFailures
  /\ failures' = IF ok THEN failures ELSE failures + 1
  /\ net' = net \ {c}
  /\ LET k == QueryOf(c)
         q == cache[k]
     IN cache' =
          IF ~c.live THEN cache
          ELSE IF ok
          THEN [cache EXCEPT ![k] =
                  SuccessAction(q, Append(q.pages, Response(c.key.f, c.page, c.page_size)))]
          ELSE [cache EXCEPT ![k] = FailedAttempt(q)]
  /\ ev' = Other
  /\ UNCHANGED <<variant, virtualMode, filters, page, prevResult, view, st, fx>>

\* the retryer's sleep (retryDelay) ends: next attempt, unless cancelled
RetryTimer(k) ==
  /\ variant \in Hooks
  /\ Rendered
  /\ cache[k].fetchStatus = "fetching"
  /\ ~cache[k].running
  /\ LET q == cache[k]
     IN IF q.retryCancelled
        THEN /\ cache' = [cache EXCEPT ![k] = ErrorAction(q)]
             /\ UNCHANGED net
        ELSE /\ cache' = [cache EXCEPT ![k].running = TRUE]
             /\ net' = net \cup {Call(k, q.param, q.direction)}
  /\ ev' = Other
  /\ UNCHANGED <<variant, virtualMode, filters, page, prevResult, view, failures, st, fx>>

\* React renders App with the observer's current result
Render ==
  /\ variant \in Hooks
  /\ view # CurrentResult
  /\ view' = CurrentResult
  /\ ev' = Other
  /\ UNCHANGED <<variant, virtualMode, filters, page, cache, prevResult, net, failures, st, fx>>

\* after the first render and its effects: page 1 of the empty filter is
\* being fetched
InitHooks ==
  /\ variant \in Hooks
  /\ virtualMode \in BOOLEAN
  /\ filters = NoFilter
  /\ page = 1
  /\ cache = [k \in QueryKeys |->
                IF k = CurrentKey(NoFilter, 1) THEN FetchAction(QueryInit, "none", 1)
                ELSE QueryInit]
  /\ prevResult = NoPrev
  /\ view = CreateResult(CurrentKey(NoFilter, 1), cache[CurrentKey(NoFilter, 1)], NoPrev)
  /\ net = {Call(CurrentKey(NoFilter, 1), 1, "none")}
  /\ failures = 0
  /\ st = NoState
  /\ fx = NoFetch
  /\ ev = Other

\* the arrivals, retries and renders of the query hooks
QuerySteps ==
  \/ \E c \in net, ok \in BOOLEAN : Arrive(c, ok)
  \/ \E k \in QueryKeys : RetryTimer(k)
  \/ Render

\* App showing the virtualized table over the infinite query
NextInfinite ==
  \/ \E f \in FilterSet : handleFilterChange(f)
  \/ \E v \in VisibleStops(Len(defects(view))) : onItemsRendered(v)
  \/ QuerySteps

\* App showing the paginated table over the page query
NextPaged ==
  \/ \E f \in FilterSet : handleFilterChange(f)
  \/ \E n \in 1..MaxPage : handlePageChange(n)
  \/ QuerySteps

InitInfinite == InitHooks /\ virtualMode = TRUE

InitPaged == InitHooks /\ virtualMode = FALSE

SpecInfinite == InitInfinite /\ [][NextInfinite]_vars

SpecPaged == InitPaged /\ [][NextPaged]_vars

\* ---------------------------------------------------------------------
\* The App that loads in an effect (useState + useEffect + loadDefects)

\* a call of the fetcher made by loadDefects for filter f and the page and
\* page size of pagination state pg
LoadCall(f, pg) ==
  [key |-> Key(f, pg.page), page |-> pg.page, page_size |-> pg.pageSize,
   direction |-> "none", live |-> TRUE]

\* loadDefects up to its await: loading on, error cleared, the fetcher called
\* with the filters and pagination of the render that created the callback
loadDefects(s, f, n) ==
  /\ Cardinality(n) <= MaxIgnored
  /\ st' = [s EXCEPT !.loading = TRUE, !.error = FALSE]
  /\ net' = n \cup {LoadCall(f, s.pagination)}

\* Apply or Clear of the filter bar; fresh: the filter object handed over is
\* not the one App holds (Apply after no edit hands over the same object)
handleFilterChangeEffect(f, fresh) ==
  /\ variant = "effect"
  /\ ~fresh => f = filters
  /\ filters' = f
  /\ LET s == [st EXCEPT !.pagination.page = 1]
     IN IF fresh \/ st.pagination.page # 1
        THEN loadDefects(s, f, net)
        ELSE st' = s /\ UNCHANGED net
  /\ ev' = Other
  /\ UNCHANGED <<variant, virtualMode, page, cache, prevResult, view, failures, fx>>

\* a page button of the table, which is rendered only while not loading
handlePageChangeEffect(newPage) ==
  /\ variant = "effect"
  /\ ~st.loading
  /\ newPage \in Reachable(st.pagination)
  /\ loadDefects([st EXCEPT !.pagination.page = newPage], filters, net)
  /\ ev' = Other
  /\ UNCHANGED <<variant, virtualMode, filters, page, cache, prevResult, view, failures, fx>>

\* the rest of loadDefects after its await, whichever load it is: the
\* response is committed (or the error set), loading goes off, and the effect
\* runs loadDefects again when the committed page or page size differs from
\* the one held
ArriveEffect(c, ok) ==
  /\ variant = "effect"
  /\ c \in net
  /\ ~ok => failures < MaxFailures
  /\ failures' = IF ok THEN failures ELSE failures + 1
  /\ LET r == Response(c.key.f, c.page, c.page_size)
         pg == [page |-> r.page, pageSize |-> r.page_size,
                total |-> r.total, hasMore |-> r.has_more]
         s == [st EXCEPT !.defects = r.data, !.pagination = pg, !.loading = FALSE]
     IN IF ~ok
        THEN /\ st' = [st EXCEPT !.error = TRUE, !.loading = FALSE]
             /\ net' = net \ {c}
        ELSE IF pg.page # st.pagination.page \/ pg.pageSize # st.pagination.pageSize
        THEN loadDefects(s, filters, net \ {c})
        ELSE /\ st' = s
             /\ net' = net \ {c}
  /\ ev' = Other
  /\ UNCHANGED <<variant, virtualMode, filters, page, cache, prevResult, view, fx>>

\* after the first render and its effect: loadDefects has called the fetcher
InitEffect ==
  /\ variant = "effect"
  /\ virtualMode = FALSE
  /\ filters = NoFilter
  /\ page = 1
  /\ cache = [k \in {} |-> QueryInit]
  /\ prevResult = NoPrev
  /\ view = CreateResult(Key(NoFilter, 1), QueryInit, NoPrev)
  /\ st = [defects |-> <<>>, loading |-> TRUE, error |-> FALSE,
           pagination |-> DefaultPagination]
  /\ net = {LoadCall(NoFilter, DefaultPagination)}
  /\ failures = 0
  /\ fx = NoFetch
  /\ ev = Other

NextEffect ==
  \/ \E f \in FilterSet, fresh \in BOOLEAN : handleFilterChangeEffect(f, fresh)
  \/ \E n \in 1..MaxPage : handlePageChangeEffect(n)
  \/ \E c \in net, ok \in BOOLEAN : ArriveEffect(c, ok)

SpecEffect == InitEffect /\ [][NextEffect]_vars

\* ---------------------------------------------------------------------
\* One invocation of the page fetcher, step by step

Fetchers == {"fetchDefects", "getDefects"}

\* a request to a data collaborator: the hosted database ("supabase") or the
\* REST backend ("fastapi")
Request(to, x) ==
  LET size == EffectiveSize(x.page_size)
      offset == (x.page - 1) * size
  IN [to |-> to, page |-> x.page, page_size |-> size,
      range |-> IF to = "supabase" THEN <<offset, offset + size - 1>> ELSE <<>>]

\* the fallback path: fetchDefects defaults page_size and calls the REST
\* backend; fetchDefectsFallback has no default, and page_size.toString()
\* throws before any request when the caller passed no page_size
fetchDefectsFallback(x) ==
  IF x.fetcher = "getDefects" /\ x.page_size = Absent
  THEN [x EXCEPT !.pc = "thrown"]
  ELSE [x EXCEPT !.pc = "fastapi", !.calls = Append(@, Request("fastapi", x))]

\* a fetcher that queries the primary source again after its failure
RetrySupabase(x) == [x EXCEPT !.calls = Append(@, Request("supabase", x))]

\* the primary source returned an error or the query rejected: the fetcher
\* logs it and falls through to the fallback path
SupabaseFailed(x) == fetchDefectsFallback(x)

\* the fetcher runs up to its first await
FetcherStart ==
  /\ variant = "fetcher"
  /\ fx.pc = "start"
  /\ fx' = IF fx.available
           THEN [fx EXCEPT !.pc = "supabase", !.calls = Append(@, Request("supabase", fx))]
           ELSE fetchDefectsFallback(fx)
  /\ UNCHANGED <<variant, virtualMode, filters, page, cache, prevResult, view,
                 net, failures, st, ev>>

\* the query of the primary source settles: with rows, with an error in the
\* result, or by rejecting
SupabaseSettles(outcome) ==
  /\ variant = "fetcher"
  /\ fx.pc = "supabase"
  /\ fx' = IF outcome = "data"
           THEN [fx EXCEPT !.pc = "returned",
                           !.result = Response(fx.f, fx.page, fx.page_size)]
           ELSE SupabaseFailed(fx)
  /\ UNCHANGED <<variant, virtualMode, filters, page, cache, prevResult, view,
                 net, failures, st, ev>>

\* the request to the REST backend settles: response.ok, or not (the fetcher
\* throws)
FastapiSettles(ok) ==
  /\ variant = "fetcher"
  /\ fx.pc = "fastapi"
  /\ fx' = IF ok
           THEN [fx EXCEPT !.pc = "returned",
                           !.result = Response(fx.f, fx.page, fx.page_size)]
           ELSE [fx EXCEPT !.pc = "thrown"]
  /\ UNCHANGED <<variant, virtualMode, filters, page, cache, prevResult, view,
                 net, failures, st, ev>>

NoResult == [page |-> 0]

\* an invocation: which fetcher, whether the Supabase client exists, and the
\* parameters (useDefects of the later hooks passes no page_size)
InitFetcher ==
  /\ variant = "fetcher"
  /\ virtualMode = FALSE
  /\ filters = NoFilter
  /\ page = 1
  /\ cache = [k \in {} |-> QueryInit]
  /\ prevResult = NoPrev
  /\ view = CreateResult(Key(NoFilter, 1), QueryInit, NoPrev)
  /\ st = NoState
  /\ net = {}
  /\ failures = 0
  /\ \E fn \in Fetchers, a \in BOOLEAN, f \in FetcherFilters,
        p \in 1..MaxPage, s \in {Absent, PAGE_SIZE, OtherPageSize} :
       fx = [pc |-> "start", fetcher |-> fn, available |-> a, f |-> f,
             page |-> p, page_size |-> s, calls |-> <<>>, result |-> NoResult]
  /\ ev = Other

NextFetcher ==
  \/ FetcherStart
  \/ \E outcome \in {"data", "error", "rejected"} : SupabaseSettles(outcome)
  \/ \E ok \in BOOLEAN : FastapiSettles(ok)

SpecFetcher == InitFetcher /\ [][NextFetcher]_vars

\* ---------------------------------------------------------------------
\* The aircraft search of the filter widget (DefectFilters), debounced either
\* by the useDebounce hook feeding useAircraftSearch or by the in-component
\* debounce helper.  Time is in milliseconds.

\* the search texts a user types
Texts == {"", "O", "OH", "OH-1"}

Debouncers == {"useDebounce", "debounce"}

\* a timer that is due at once
Immediate(v, t) == [value |-> v, due |-> t]

\* setTimeout(..., delay) called at time t for value v
Timer(v, t) == [value |-> v, due |-> t + delay]

\* a timer started without clearing the pending one
KeepPending(timers, t) == timers \cup {t}

\* clearTimeout of the pending timer, then setTimeout
Restart(timers, t) == {t}

\* useAircraftSearch: enabled; debouncedSearchAircraft: the same test
enabled(searchTerm) == searchTerm # "" /\ Len(searchTerm) >= MinSearchLength

\* a call of searchAircraft for the burst of changes b, attempt n of its query
SearchCall(v, b, n) == [value |-> v, burst |-> b, attempt |-> n]

\* onInputChange: the text changes; a change 300 ms or more after the
\* previous one starts a new burst of changes
onInputChange(v) ==
  /\ st.mounted
  /\ v # st.input
  /\ st.changes < MaxChanges
  /\ LET fresh == st.changes = 0 \/ st.now - st.lastChange >= delay
     IN st' = [st EXCEPT !.input = v, !.changes = @ + 1, !.lastChange = st.now,
                         !.finals = IF fresh THEN Append(@, v)
                                    ELSE [@ EXCEPT ![Len(@)] = v],
                         !.timers = Restart(@, Timer(v, st.now))]
  /\ UNCHANGED <<variant, virtualMode, filters, page, cache, prevResult, view,
                 net, failures, fx, ev>>

\* a pending timer fires, at its due time or later: setDebouncedValue(value)
\* and the render of useAircraftSearch, or the debounced function itself
TimerFires(t) ==
  /\ t \in st.timers
  /\ st.now >= t.due
  /\ LET issue == /\ enabled(t.value)
                  /\ st.impl = "useDebounce" =>
                       /\ t.value # st.effective
                       /\ t.value \notin st.cached
                       /\ \A c \in net : c.value # t.value
         c == SearchCall(t.value, Len(st.finals), 1)
     IN /\ st' = [st EXCEPT !.timers = @ \ {t}, !.effective = t.value,
                            !.calls = IF issue THEN Append(@, c) ELSE @,
                            !.deadCall = @ \/ (issue /\ ~st.mounted),
                            !.deadSet = @ \/ ~st.mounted]
        /\ net' = IF issue THEN net \cup {c} ELSE net
  /\ UNCHANGED <<variant, virtualMode, filters, page, cache, prevResult, view,
                 failures, fx, ev>>

\* searchAircraft settles: the query client retries a failed query that is
\* still observed; the helper sets the widget's state in every outcome
SearchSettles(c, ok) ==
  /\ c \in net
  /\ ~ok => failures < MaxFailures
  /\ LET again == /\ st.impl = "useDebounce" /\ ~ok /\ c.attempt <= retry
                  /\ st.mounted /\ st.effective = c.value
         n == [c EXCEPT !.attempt = @ + 1]
     IN /\ net' = (net \ {c}) \cup (IF again THEN {n} ELSE {})
        /\ st' = [st EXCEPT !.calls = IF again THEN Append(@, n) ELSE @,
                            !.cached = IF ok /\ st.impl = "useDebounce"
                                       THEN @ \cup {c.value} ELSE @,
                            !.deadSet = @ \/ (st.impl = "debounce" /\ ~st.mounted)]
  /\ failures' = IF ok THEN failures ELSE failures + 1
  /\ UNCHANGED <<variant, virtualMode, filters, page, cache, prevResult, view,
                 fx, ev>>

\* the widget is unmounted: the cleanup of useDebounce's effect clears its
\* timer; the helper's timer has no cleanup
UnmountSearch ==
  /\ st.mounted
  /\ st' = [st EXCEPT !.mounted = FALSE,
                      !.timers = IF st.impl = "useDebounce" THEN {} ELSE @]
  /\ UNCHANGED <<variant, virtualMode, filters, page, cache, prevResult, view,
                 net, failures, fx, ev>>

\* time passes
Tick ==
  /\ st.now + Step <= MaxTime
  /\ st' = [st EXCEPT !.now = @ + Step]
  /\ UNCHANGED <<variant, virtualMode, filters, page, cache, prevResult, view,
                 net, failures, fx, ev>>

\* the widget as mounted: useDebounce's effect starts a timer for the initial
\* empty text
InitSearch ==
  /\ variant = "search"
  /\ virtualMode = FALSE
  /\ filters = NoFilter
  /\ page = 1
  /\ cache = [k \in {} |-> QueryInit]
  /\ prevResult = NoPrev
  /\ view = CreateResult(Key(NoFilter, 1), QueryInit, NoPrev)
  /\ \E d \in Debouncers :
       st = [impl |-> d, mounted |-> TRUE, input |-> "", effective |-> "",
             timers |-> IF d = "useDebounce" THEN {Timer("", 0)} ELSE {},
             now |-> 0, lastChange |-> 0, changes |-> 0, finals |-> <<>>,
             calls |-> <<>>, cached |-> {}, deadSet |-> FALSE,
             deadCall |-> FALSE]
  /\ net = {}
  /\ failures = 0
  /\ fx = NoFetch
  /\ ev = Other

NextSearch ==
  \/ \E v \in Texts : onInputChange(v)
  \/ \E t \in st.timers : TimerFires(t)
  \/ \E c \in net, ok \in BOOLEAN : SearchSettles(c, ok)
  \/ UnmountSearch
  \/ Tick

SpecSearch == InitSearch /\ [][NextSearch]_vars

\* ---------------------------------------------------------------------
\* VirtualizedDefectTable over react-window's VariableSizeList: the rows
\* expanded, and the list's cache of measured row sizes and offsets.  The
\* later table resets the cache in toggleExpanded, the earlier one never does.

TableVariants == {"resetAfterIndex", "plain"}

\* the defects prop: n pages of filter f, flattened
items(f, n) == flatMap([i \in 1..n |-> Response(f, i, TablePageSize)])

\* a toggle that collapses every other row
Accordion(expandedRows, defectId) ==
  IF defectId \in expandedRows THEN {} ELSE {defectId}

\* setExpandedRows' updater: delete the id if present, add it otherwise
Toggled(expandedRows, defectId) ==
  IF defectId \in expandedRows THEN expandedRows \ {defectId}
  ELSE expandedRows \cup {defectId}

\* getItemSize(index), index from 0
getItemSize(impl, defects_, expandedRows, index) ==
  LET collapsed == IF impl = "plain" THEN EarlyRowHeight ELSE ROW_HEIGHT
      expanded == IF impl = "plain" THEN EarlyExpandedHeight
                  ELSE ROW_HEIGHT + ExpandedExtra
  IN IF index + 1 \in 1..Len(defects_) /\ defects_[index + 1] \in expandedRows
     THEN expanded ELSE collapsed

\* VariableSizeList's getItemMetadata up to index: sizes already measured are
\* kept, the rows after lastMeasuredIndex are measured with the current itemSize
Measured(impl, defects_, expandedRows, sizes, index) ==
  [j \in 1..(IF index + 1 > Len(sizes) THEN index + 1 ELSE Len(sizes)) |->
     IF j <= Len(sizes) THEN sizes[j]
     ELSE getItemSize(impl, defects_, expandedRows, j - 1)]

\* resetAfterIndex(index): lastMeasuredIndex = min(lastMeasuredIndex, index - 1)
resetAfterIndex(sizes, index) == SubSeq(sizes, 1, Min(Len(sizes), index))

\* the click on the expand button of the row at position i (from 1), which is
\* rendered, hence measured; the render that follows measures the same rows
toggleExpanded(i) ==
  /\ i \in 1..Len(st.sizes)
  /\ Len(st.toggles) < MaxToggles
  /\ LET defects_ == items(st.f, st.pages)
         defectId == defects_[i]
         set == Toggled(st.expandedRows, defectId)
         kept == IF st.impl = "resetAfterIndex" THEN resetAfterIndex(st.sizes, 0)
                 ELSE st.sizes
     IN st' = [st EXCEPT !.expandedRows = set,
                         !.toggles = Append(@, defectId),
                         !.sizes = Measured(st.impl, defects_, set, kept,
                                            Len(st.sizes) - 1)]
  /\ UNCHANGED <<variant, virtualMode, filters, page, cache, prevResult, view,
                 net, failures, fx, ev>>

\* a scroll renders the rows up to index j (from 0)
ScrollTo(j) ==
  /\ j \in Len(st.sizes)..(Len(items(st.f, st.pages)) - 1)
  /\ j < MaxRendered
  /\ st' = [st EXCEPT !.sizes = Measured(st.impl, items(st.f, st.pages),
                                         st.expandedRows, @, j)]
  /\ UNCHANGED <<variant, virtualMode, filters, page, cache, prevResult, view,
                 net, failures, fx, ev>>

\* the next page of the same filter is appended to the defects prop
AppendPage ==
  /\ st.pages < MaxPage
  /\ Response(st.f, st.pages, TablePageSize).has_more
  /\ st' = [st EXCEPT !.pages = @ + 1]
  /\ UNCHANGED <<variant, virtualMode, filters, page, cache, prevResult, view,
                 net, failures, fx, ev>>

\* the table as mounted with the first page, its first row rendered
InitTable ==
  /\ variant = "table"
  /\ virtualMode = TRUE
  /\ filters = NoFilter
  /\ page = 1
  /\ cache = [k \in {} |-> QueryInit]
  /\ prevResult = NoPrev
  /\ view = CreateResult(Key(NoFilter, 1), QueryInit, NoPrev)
  /\ \E impl \in TableVariants, f \in FilterSet :
       st = [impl |-> impl, f |-> f, pages |-> 1, expandedRows |-> {},
             toggles |-> <<>>,
             sizes |-> Measured(impl, items(f, 1), {}, <<>>, 0)]
  /\ net = {}
  /\ failures = 0
  /\ fx = NoFetch
  /\ ev = Other

NextTable ==
  \/ \E i \in 1..Len(st.sizes) : toggleExpanded(i)
  \/ \E j \in 0..(MaxRendered - 1) : ScrollTo(j)
  \/ AppendPage

SpecTable == InitTable /\ [][NextTable]_vars

\* ---------------------------------------------------------------------
\* The loaders that components start from an effect and await: loadDefects
\* and loadAnalytics of the useEffect App, loadAircraft of DefectFilters and
\* getInsights of the useEffect DefectInsights

Loaders == {"loadDefects", "loadAnalytics", "loadAircraft", "getInsights"}

\* the loaders that set state before the call (setLoading(true), ...)
SetsOnStart(l) == l \in {"loadDefects", "getInsights"}

\* the loaders whose catch and finally blocks set state; the others only log
SetsOnFailure(l) == l \in {"loadDefects", "getInsights"}

\* the loaders whose effect has dependencies that change (filters, page, defects)
Reruns(l) == l # "loadAircraft"

\* the effect runs, at mount and again when a dependency has changed
RunEffect ==
  /\ st.mounted
  /\ st.issued < MaxRequests
  /\ st.issued = 0 \/ Reruns(st.loader)
  /\ st' = [st EXCEPT !.issued = @ + 1,
                      !.loading = IF SetsOnStart(st.loader) THEN TRUE ELSE @,
                      !.error = IF SetsOnStart(st.loader) THEN FALSE ELSE @]
  /\ net' = net \cup {st.issued + 1}
  /\ UNCHANGED <<variant, virtualMode, filters, page, cache, prevResult, view,
                 failures, fx, ev>>

\* the awaited call n settles and the rest of the loader runs: no loader
\* tests whether its component is still mounted
LoaderSettles(n, ok) ==
  /\ n \in net
  /\ ~ok => failures < MaxFailures
  /\ LET sets == ok \/ SetsOnFailure(st.loader)
     IN st' = [st EXCEPT !.data = IF ok THEN n
                                  ELSE IF st.loader = "getInsights" THEN -n ELSE @,
                         !.error = IF ok THEN (IF st.loader = "getInsights" THEN FALSE ELSE @)
                                   ELSE IF sets THEN TRUE ELSE @,
                         !.loading = IF SetsOnStart(st.loader) THEN FALSE ELSE @,
                         !.deadSet = @ \/ (sets /\ ~st.mounted)]
  /\ net' = net \ {n}
  /\ failures' = IF ok THEN failures ELSE failures + 1
  /\ UNCHANGED <<variant, virtualMode, filters, page, cache, prevResult, view,
                 fx, ev>>

\* the component is unmounted: no effect of these components has a cleanup
UnmountLoader ==
  /\ st.mounted
  /\ st' = [st EXCEPT !.mounted = FALSE]
  /\ UNCHANGED <<variant, virtualMode, filters, page, cache, prevResult, view,
                 net, failures, fx, ev>>

\* the component as mounted, before its effect has run; data is the number
\* of the call whose response is shown (negative: computed locally from the
\* rows of that call), 0 for none
InitLoader ==
  /\ variant = "loader"
  /\ virtualMode = FALSE
  /\ filters = NoFilter
  /\ page = 1
  /\ cache = [k \in {} |-> QueryInit]
  /\ prevResult = NoPrev
  /\ view = CreateResult(Key(NoFilter, 1), QueryInit, NoPrev)
  /\ \E l \in Loaders :
       st = [loader |-> l, mounted |-> TRUE, issued |-> 0, data |-> 0,
             loading |-> (l = "getInsights"), error |-> FALSE,
             deadSet |-> FALSE]
  /\ net = {}
  /\ failures = 0
  /\ fx = NoFetch
  /\ ev = Other

NextLoader ==
  \/ RunEffect
  \/ \E n \in net, ok \in BOOLEAN : LoaderSettles(n, ok)
  \/ UnmountLoader

SpecLoader == InitLoader /\ [][NextLoader]_vars

\* ---------------------------------------------------------------------
\* One invocation of a function of the data service (dataService.js), which
\* tries the Supabase module first and falls back to the REST backend module

DataService == {"getDefects", "searchAircraft", "getAnalytics"}

\* what the module `from` returns for the arguments of invocation x
ServiceResult(x, from) ==
  [from |-> from,
   value |-> IF x.fn = "getDefects" THEN Response(x.f, x.page, x.page_size).data
             ELSE IF x.fn = "searchAircraft" THEN <<x.term>>
             ELSE <<>>]

\* searchAircraftFallback on a response that is not ok: an empty list
EmptySearch == [from |-> "fastapi", value |-> <<>>]

\* the fallback path of the data service: fetchDefectsFallback reads
\* page_size.toString() and throws before any request when the caller passed
\* no page_size; the other functions take no such parameter
ServiceFallback(x) ==
  IF x.fn = "getDefects" /\ x.page_size = Absent
  THEN [x EXCEPT !.pc = "thrown"]
  ELSE [x EXCEPT !.pc = "fastapi", !.calls = Append(@, "fastapi")]

\* the function runs up to its first await
ServiceStart ==
  /\ fx.pc = "start"
  /\ fx' = IF fx.available
           THEN [fx EXCEPT !.pc = "supabase", !.calls = Append(@, "supabase")]
           ELSE ServiceFallback(fx)
  /\ UNCHANGED <<variant, virtualMode, filters, page, cache, prevResult, view,
                 net, failures, st, ev>>

\* a query of the Supabase module settles; fetchAnalyticsSupabase asks for
\* the next chunk after a full one; an error or a rejection is caught and
\* the function falls through to the fallback path
PrimarySettles(outcome, full) ==
  /\ fx.pc = "supabase"
  /\ full => (fx.fn = "getAnalytics" /\ outcome = "data" /\ Len(fx.calls) < MaxChunks)
  /\ fx' = IF outcome # "data" THEN ServiceFallback(fx)
           ELSE IF full THEN [fx EXCEPT !.calls = Append(@, "supabase")]
           ELSE [fx EXCEPT !.pc = "returned",
                           !.result = ServiceResult(fx, "supabase")]
  /\ UNCHANGED <<variant, virtualMode, filters, page, cache, prevResult, view,
                 net, failures, st, ev>>

\* the request to the REST backend settles: response.ok, another status
\* (the function throws, searchAircraftFallback returns an empty list), or
\* the request rejects
FallbackSettles(outcome) ==
  /\ fx.pc = "fastapi"
  /\ fx' = IF outcome = "ok"
           THEN [fx EXCEPT !.pc = "returned",
                           !.result = ServiceResult(fx, "fastapi")]
           ELSE IF outcome = "status" /\ fx.fn = "searchAircraft"
           THEN [fx EXCEPT !.pc = "returned", !.result = EmptySearch]
           ELSE [fx EXCEPT !.pc = "thrown"]
  /\ UNCHANGED <<variant, virtualMode, filters, page, cache, prevResult, view,
                 net, failures, st, ev>>

\* an invocation: the function, whether the Supabase client exists, and the
\* arguments (useDefects of the later hooks passes no page_size)
InitService ==
  /\ variant = "service"
  /\ virtualMode = FALSE
  /\ filters = NoFilter
  /\ page = 1
  /\ cache = [k \in {} |-> QueryInit]
  /\ prevResult = NoPrev
  /\ view = CreateResult(Key(NoFilter, 1), QueryInit, NoPrev)
  /\ st = NoState
  /\ net = {}
  /\ failures = 0
  /\ \E fn \in DataService, a \in BOOLEAN, f \in FilterSet, p \in 1..MaxPage,
        s \in {Absent, PAGE_SIZE}, term \in Texts :
       /\ fn # "getDefects" => (f = NoFilter /\ p = 1 /\ s = Absent)
       /\ fn # "searchAircraft" => term = ""
       /\ fx = [pc |-> "start", fn |-> fn, available |-> a, f |-> f,
                page |-> p, page_size |-> s, term |-> term, calls |-> <<>>,
                result |-> [from |-> "none", value |-> <<>>]]
  /\ ev = Other

NextService ==
  \/ ServiceStart
  \/ \E outcome \in {"data", "error", "rejected"}, full \in BOOLEAN :
       PrimarySettles(outcome, full)
  \/ \E outcome \in {"ok", "status", "rejected"} : FallbackSettles(outcome)

SpecService == InitService /\ [][NextService]_vars

\* ---------------------------------------------------------------------
\* The date cell of a row, as each row renderer formats reported_at.  A
\* reported_at value is a sequence of characters.

DigitValue ==
  ("0" :> 0) @@ ("1" :> 1) @@ ("2" :> 2) @@ ("3" :> 3) @@ ("4" :> 4) @@
  ("5" :> 5) @@ ("6" :> 6) @@ ("7" :> 7) @@ ("8" :> 8) @@ ("9" :> 9)

RECURSIVE Number(_)
Number(digits) ==
  IF digits = <<>> THEN 0
  ELSE 10 * Number(SubSeq(digits, 1, Len(digits) - 1)) + DigitValue[digits[Len(digits)]]

\* the reported_at values of the rows rendered: two dates, an empty string,
\* a text that is no date, a month that does not exist
ReportedAtValues ==
  {<<"2", "0", "2", "5", "-", "0", "6", "-", "2", "6">>,
   <<"2", "0", "2", "4", "-", "1", "2", "-", "0", "1">>,
   <<>>,
   <<"n", "/", "a">>,
   <<"2", "0", "2", "5", "-", "1", "3", "-", "0", "1">>}

InvalidDate == [valid |-> FALSE, y |-> 0, m |-> 0, d |-> 0]

\* new Date(dateString), for strings of the form yyyy-mm-dd; any other
\* string of ReportedAtValues gives an Invalid Date
NewDate(dateString) ==
  IF /\ Len(dateString) = 10
     /\ dateString[5] = "-" /\ dateString[8] = "-"
     /\ \A i \in {1, 2, 3, 4, 6, 7, 9, 10} : dateString[i] \in DOMAIN DigitValue
  THEN LET y == Number(SubSeq(dateString, 1, 4))
           m == Number(SubSeq(dateString, 6, 7))
           d == Number(SubSeq(dateString, 9, 10))
       IN IF m \in 1..12 /\ d \in 1..31
          THEN [valid |-> TRUE, y |-> y, m |-> m, d |-> d]
          ELSE InvalidDate
  ELSE InvalidDate

\* date-fns isValid
isValid(date) == date.valid

MonthNames ==
  <<"Jan", "Feb", "Mar", "Apr", "May", "Jun", "Jul", "Aug", "Sep", "Oct",
    "Nov", "Dec">>

\* what rendering a cell gives: a text, or an exception
Text(t) == [thrown |-> FALSE, text |-> t]
RangeError == [thrown |-> TRUE, text |-> "Invalid time value"]

\* date-fns format(date, 'MMM dd, yyyy'): throws on an Invalid Date
format(date) ==
  IF ~date.valid THEN RangeError
  ELSE Text(MonthNames[date.m] \o " " \o
            (IF date.d < 10 THEN "0" ELSE "") \o ToString(date.d) \o ", " \o
            ToString(date.y))

Renderers ==
  {"utils/date", "DefectRow", "VirtualRow", "DefectTable", "EarlyVirtualRow"}

\* the date cell: formatDisplayDate of utils/date.js, of DefectRow.jsx and
\* of VirtualizedDefectTable.jsx, and the inline format of DefectTable.jsx
\* and of the earlier VirtualRow
formatDisplayDate(renderer, dateString) ==
  LET date == NewDate(dateString)
  IN CASE renderer \in {"utils/date", "VirtualRow"} ->
            IF isValid(date) THEN format(date) ELSE Text("")
       [] renderer = "DefectRow" ->
            IF isValid(date) THEN format(date) ELSE Text("Invalid Date")
       [] OTHER -> format(date)

\* the next row of the table is rendered; an exception ends the render
RenderRow ==
  /\ ~st.thrown
  /\ Len(st.cells) < Len(st.rows)
  /\ LET cell == formatDisplayDate(st.renderer, st.rows[Len(st.cells) + 1])
     IN st' = [st EXCEPT !.thrown = cell.thrown,
                         !.cells = IF cell.thrown THEN @ ELSE Append(@, cell.text)]
  /\ UNCHANGED <<variant, virtualMode, filters, page, cache, prevResult, view,
                 net, failures, fx, ev>>

\* every row has been rendered: the render of the table ends
RenderDone ==
  /\ ~st.thrown
  /\ Len(st.cells) = Len(st.rows)
  /\ ~st.done
  /\ st' = [st EXCEPT !.done = TRUE]
  /\ UNCHANGED <<variant, virtualMode, filters, page, cache, prevResult, view,
                 net, failures, fx, ev>>

\* a renderer and the rows it is given
InitRender ==
  /\ variant = "render"
  /\ virtualMode = FALSE
  /\ filters = NoFilter
  /\ page = 1
  /\ cache = [k \in {} |-> QueryInit]
  /\ prevResult = NoPrev
  /\ view = CreateResult(Key(NoFilter, 1), QueryInit, NoPrev)
  /\ \E r \in Renderers, n \in 1..MaxRows :
       \E rows \in [1..n -> ReportedAtValues] :
         st = [renderer |-> r, rows |-> rows, cells |-> <<>>,
               thrown |-> FALSE, done |-> FALSE]
  /\ net = {}
  /\ failures = 0
  /\ fx = NoFetch
  /\ ev = Other

NextRender == RenderRow \/ RenderDone

SpecRender == InitRender /\ [][NextRender]_vars

\* ---------------------------------------------------------------------
\* The summary of the hooks App: the analytics dashboard fed by useAnalytics
\* and the insights card of DefectInsights, fed by useInsights with a
\* client-side calculation for its error state.  The window is n pages of a
\* fixed filter; the insights query of a window is keyed by its row ids.

\* reported_at of row r in hours: rows are most recent first
ReportedHour(r) == (DatasetSize - r) * SpacingHours

\* calculateFallbackInsights; the daily rate is kept in hundredths
\* (Math.round(x * 100) / 100)
calculateFallbackInsights(defects_) ==
  IF defects_ = <<>> THEN [isFallback |-> TRUE, total_defects |-> 0,
                           date_range_days |-> 0, daily_defect_rate |-> 0]
  ELSE LET hours == {ReportedHour(defects_[i]) : i \in 1..Len(defects_)}
           minDate == CHOOSE h \in hours : \A g \in hours : h <= g
           maxDate == CHOOSE h \in hours : \A g \in hours : h >= g
           ceil == (maxDate - minDate + 23) \div 24
           daysDiff == IF ceil + 1 > 1 THEN ceil + 1 ELSE 1
       IN [isFallback |-> TRUE,
           total_defects |-> Len(defects_),
           date_range_days |-> daysDiff,
           daily_defect_rate |-> (200 * Len(defects_) + daysDiff) \div (2 * daysDiff)]

\* what the insights endpoint answers for the rows posted to it
ServerInsights(defects_) ==
  [isFallback |-> FALSE, total_defects |-> Len(defects_),
   date_range_days |-> 0, daily_defect_rate |-> 0]

\* a query state of useInsights or useAnalytics
Idle == [status |-> "loading", fetching |-> FALSE, failureCount |-> 0, data |-> <<>>]

\* a fetch starts: a query without data is loading again
Fetching(q) ==
  [q EXCEPT !.fetching = TRUE, !.failureCount = 0,
            !.status = IF q.data = <<>> THEN "loading" ELSE @]

\* the observer of the insights query of the window of n pages is mounted:
\* a query with fresh data is not fetched again (staleTime)
Observe(queries, n) ==
  IF queries[n].fetching \/ queries[n].status = "success" THEN queries
  ELSE [queries EXCEPT ![n] = Fetching(@)]

\* DefectInsights: the spinner, or the statistic with or without the alert
\* of the local calculation
InsightsCard(q, defects_) ==
  LET isError == q.status = "error"
      finalInsights == IF isError THEN <<calculateFallbackInsights(defects_)>>
                       ELSE q.data
  IN IF q.status = "loading" THEN [kind |-> "spinner"]
     ELSE IF finalInsights = <<>> THEN [kind |-> "none"]
     ELSE [kind |-> "stat", value |-> finalInsights[1], label |-> isError]

\* App: {analytics && <DefectAnalytics analytics={analytics} />}
DashboardShown(q) == q.data # <<>>

\* the next page is appended to the window
GrowWindow ==
  /\ st.pages < MaxPage
  /\ Response(st.f, st.pages, TablePageSize).has_more
  /\ st' = [st EXCEPT !.pages = @ + 1, !.insights = Observe(@, st.pages + 1)]
  /\ UNCHANGED <<variant, virtualMode, filters, page, cache, prevResult, view,
                 net, failures, fx, ev>>

\* the window is cut back to its first page (the query of that window is
\* observed again)
ResetWindow ==
  /\ st.pages > 1
  /\ st' = [st EXCEPT !.pages = 1, !.insights = Observe(@, 1)]
  /\ UNCHANGED <<variant, virtualMode, filters, page, cache, prevResult, view,
                 net, failures, fx, ev>>

\* a query's reducer on the outcome of its call: a failed call is retried
\* up to n times
Settled(q, ok, data, n) ==
  IF ok THEN [q EXCEPT !.status = "success", !.fetching = FALSE,
                       !.failureCount = 0, !.data = <<data>>]
  ELSE IF q.failureCount < n THEN [q EXCEPT !.failureCount = @ + 1]
  ELSE [q EXCEPT !.status = "error", !.fetching = FALSE, !.failureCount = @ + 1]

\* the insights call of the window of n pages settles (retry: 1)
InsightsSettles(n, ok) ==
  /\ st.insights[n].fetching
  /\ ~ok => failures < MaxFailures
  /\ st' = [st EXCEPT !.insights[n] =
                        Settled(@, ok, ServerInsights(items(st.f, n)), InsightsRetry)]
  /\ failures' = IF ok THEN failures ELSE failures + 1
  /\ UNCHANGED <<variant, virtualMode, filters, page, cache, prevResult, view,
                 net, fx, ev>>

\* the analytics call settles (the client's default retry)
AnalyticsSettles(ok) ==
  /\ st.analytics.fetching
  /\ ~ok => failures < MaxFailures
  /\ st' = [st EXCEPT !.analytics = Settled(@, ok, "analytics", retry)]
  /\ failures' = IF ok THEN failures ELSE failures + 1
  /\ UNCHANGED <<variant, virtualMode, filters, page, cache, prevResult, view,
                 net, fx, ev>>

\* the refresh button of the dashboard: invalidateQueries(['analytics'])
refreshAnalytics ==
  /\ DashboardShown(st.analytics)
  /\ ~st.analytics.fetching
  /\ st.refreshes < MaxRefreshes
  /\ st' = [st EXCEPT !.analytics = Fetching(@), !.refreshes = @ + 1]
  /\ UNCHANGED <<variant, virtualMode, filters, page, cache, prevResult, view,
                 net, failures, fx, ev>>

\* App as mounted with the first page loaded: both queries are fetching
InitSummary ==
  /\ variant = "summary"
  /\ virtualMode = TRUE
  /\ filters = NoFilter
  /\ page = 1
  /\ cache = [k \in {} |-> QueryInit]
  /\ prevResult = NoPrev
  /\ view = CreateResult(Key(NoFilter, 1), QueryInit, NoPrev)
  /\ \E f \in FilterSet :
       st = [f |-> f, pages |-> 1,
             insights |-> Observe([n \in 1..MaxPage |-> Idle], 1),
             analytics |-> Fetching(Idle), refreshes |-> 0]
  /\ net = {}
  /\ failures = 0
  /\ fx = NoFetch
  /\ ev = Other

NextSummary ==
  \/ GrowWindow
  \/ ResetWindow
  \/ \E n \in 1..MaxPage, ok \in BOOLEAN : InsightsSettles(n, ok)
  \/ \E ok \in BOOLEAN : AnalyticsSettles(ok)
  \/ refreshAnalytics

SpecSummary == InitSummary /\ [][NextSummary]_vars

\* ---------------------------------------------------------------------
\* searchAircraftSupabase: the ilike query over the defects table, limited
\* to 100 rows, then the distinct registrations sorted and cut to 50.
\* Registrations and search terms are sequences of characters.

\* UTF-16 code units of the characters used (Array.prototype.sort order)
CharCode ==
  ("%" :> 37) @@ ("-" :> 45) @@ ("0" :> 48) @@ ("1" :> 49) @@ ("2" :> 50) @@
  ("3" :> 51) @@ ("4" :> 52) @@ ("5" :> 53) @@ ("6" :> 54) @@ ("7" :> 55) @@
  ("8" :> 56) @@ ("9" :> 57) @@ ("H" :> 72) @@ ("L" :> 76) @@ ("N" :> 78) @@
  ("O" :> 79) @@ ("_" :> 95) @@ ("h" :> 104) @@ ("l" :> 108) @@ ("n" :> 110) @@
  ("o" :> 111) @@ ("x" :> 120)

\* case folding of ilike
Lower(c) ==
  CASE c = "H" -> "h" [] c = "L" -> "l" [] c = "N" -> "n" [] c = "O" -> "o"
    [] OTHER -> c

DigitChar == <<"0", "1", "2", "3", "4", "5", "6", "7", "8", "9">>

\* the registration N00 .. N99 of number i
Reg(i) == <<"N", DigitChar[(i \div 10) + 1], DigitChar[(i % 10) + 1]>>

OHL == <<"O", "H", "-", "L">>
ohx == <<"o", "h", "x">>

\* the defects table as the number of rows of each registration: many
\* registrations with two rows each; one registration with a hundred rows
\* next to small ones; a few registrations; three of forty rows; no rows
Datasets ==
  <<[r \in {Reg(i) : i \in 0..59} \cup {OHL, ohx} |-> IF r = OHL THEN 1 ELSE 2],
    (Reg(0) :> 100) @@ (Reg(1) :> 1) @@ (OHL :> 3),
    (Reg(10) :> 1) @@ (Reg(11) :> 1) @@ (OHL :> 2) @@ (ohx :> 1),
    (Reg(20) :> 40) @@ (Reg(21) :> 40) @@ (Reg(22) :> 40),
    [r \in {} |-> 0]>>

SearchTerms ==
  {<<"N", "0">>, <<"n", "1">>, <<"N">>, <<"O", "H">>, <<"o", "h">>,
   <<"h", "-", "l">>, <<"H", "_">>, <<"x", "x">>}

\* s LIKE pattern, case-insensitive: % matches any sequence, _ any character
RECURSIVE ilike(_, _)
ilike(s, pattern) ==
  IF pattern = <<>> THEN s = <<>>
  ELSE IF pattern[1] = "%"
       THEN ilike(s, Tail(pattern)) \/ (s # <<>> /\ ilike(Tail(s), pattern))
  ELSE IF s = <<>> THEN FALSE
  ELSE /\ (pattern[1] = "_" \/ Lower(pattern[1]) = Lower(s[1]))
       /\ ilike(Tail(s), Tail(pattern))

\* a < b in the order of Array.prototype.sort (by code units)
RECURSIVE Before(_, _)
Before(a, b) ==
  IF b = <<>> THEN FALSE
  ELSE IF a = <<>> THEN TRUE
  ELSE IF a[1] # b[1] THEN CharCode[a[1]] < CharCode[b[1]]
  ELSE Before(Tail(a), Tail(b))

\* [...set].sort()
RECURSIVE Sorted(_)
Sorted(S) ==
  IF S = {} THEN <<>>
  ELSE LET m == CHOOSE x \in S : \A y \in S : x = y \/ Before(x, y)
       IN <<m>> \o Sorted(S \ {m})

Reversed(q) == [i \in 1..Len(q) |-> q[Len(q) + 1 - i]]

\* the query has no order: the rows come by registration, ascending or
\* descending
RowOrders == {"ascending", "descending"}

\* the registrations of the first `limit` rows, the rows of the matching
\* registrations coming in the order of seq
RECURSIVE FirstRows(_, _, _)
FirstRows(seq, counts, limit) ==
  IF seq = <<>> \/ limit <= 0 THEN {}
  ELSE {seq[1]} \cup FirstRows(Tail(seq), counts, limit - counts[seq[1]])

\* .ilike('aircraft_registration', `%${searchTerm}%`).limit(100)
LimitedRows(seq, counts, limit) == FirstRows(seq, counts, limit)

\* the registrations of the table that match the pattern of the term
Matching(counts, searchTerm) ==
  {r \in DOMAIN counts : ilike(r, <<"%">> \o searchTerm \o <<"%">>)}

\* every matching registration, sorted, without the cut to 50
AllMatches(counts, searchTerm, order) == Sorted(Matching(counts, searchTerm))

\* searchAircraftSupabase(searchTerm) on a table, its rows in the given order
searchAircraftSupabase(counts, searchTerm, order) ==
  LET asc == Sorted(Matching(counts, searchTerm))
      seq == IF order = "ascending" THEN asc ELSE Reversed(asc)
      uniqueAircraft == LimitedRows(seq, counts, RowLimit)
      sorted == Sorted(uniqueAircraft)
  IN SubSeq(sorted, 1, Min(Len(sorted), ResultCap))

\* the search runs
SearchSupabase ==
  /\ fx.pc = "start"
  /\ fx' = [fx EXCEPT !.pc = "returned",
                      !.aircraft = searchAircraftSupabase(Datasets[fx.dataset],
                                                          fx.term, fx.order)]
  /\ UNCHANGED <<variant, virtualMode, filters, page, cache, prevResult, view,
                 net, failures, st, ev>>

\* the caller drops the result
SearchDone ==
  /\ fx.pc = "returned"
  /\ fx' = [fx EXCEPT !.pc = "done"]
  /\ UNCHANGED <<variant, virtualMode, filters, page, cache, prevResult, view,
                 net, failures, st, ev>>

\* a table, a search term and the order the rows come in
InitLookup ==
  /\ variant = "lookup"
  /\ virtualMode = FALSE
  /\ filters = NoFilter
  /\ page = 1
  /\ cache = [k \in {} |-> QueryInit]
  /\ prevResult = NoPrev
  /\ view = CreateResult(Key(NoFilter, 1), QueryInit, NoPrev)
  /\ st = NoState
  /\ net = {}
  /\ failures = 0
  /\ \E d \in DOMAIN Datasets, t \in SearchTerms, o \in RowOrders :
       fx = [pc |-> "start", dataset |-> d, term |-> t, order |-> o,
             aircraft |-> <<>>]
  /\ ev = Other

NextLookup == SearchSupabase \/ SearchDone

SpecLookup == InitLookup /\ [][NextLookup]_vars

\* ---------------------------------------------------------------------
\* seed_supabase.mjs: main() deletes the rows of the defects table, inserts
\* the records of the data file in batches and reads the row count. The
\* records are numbered 1..n in input order; a batch is the range of
\* record numbers it holds.

\* the rest of the data in one piece
sliceToEnd(n, i, j) == [lo |-> Min(i, n) + 1, hi |-> n]

\* data.slice(i, i + batchSize)
slice(n, i, j) == [lo |-> Min(i, n) + 1, hi |-> Min(j, n)]

\* the batch sent for loop index i
batch(n, i) == slice(n, i, i + batchSize)

SeedCall(op, b) == [op |-> op, lo |-> b.lo, hi |-> b.hi]

NoBatch == [lo |-> 1, hi |-> 0]

\* catch (err) { ...; process.exit(1) }
exit(f) == [f EXCEPT !.pc = "exited", !.code = 1, !.failed = TRUE]

\* the head of the for loop at index i: the next insert, or the row count
forLoop(f, i) ==
  IF i < f.n
  THEN [f EXCEPT !.pc = "inserting", !.i = i,
                 !.calls = Append(@, SeedCall("insert", batch(f.n, i)))]
  ELSE [f EXCEPT !.pc = "counting", !.i = i,
                 !.calls = Append(@, SeedCall("count", NoBatch))]

\* main() up to its first await: the environment check, the data file, and
\* the delete request
main ==
  /\ fx.pc = "start"
  /\ fx' = IF ~fx.env THEN [fx EXCEPT !.pc = "exited", !.code = 1]
           ELSE IF ~fx.readable THEN exit(fx)
           ELSE [fx EXCEPT !.pc = "deleting",
                           !.calls = Append(@, SeedCall("delete", NoBatch))]
  /\ UNCHANGED <<variant, virtualMode, filters, page, cache, prevResult, view,
                 net, failures, st, ev>>

\* the delete settles
DeleteSettles(ok) ==
  /\ fx.pc = "deleting"
  /\ fx' = IF ok THEN forLoop(fx, 0) ELSE exit(fx)
  /\ UNCHANGED <<variant, virtualMode, filters, page, cache, prevResult, view,
                 net, failures, st, ev>>

\* the insert of a batch settles
InsertSettles(ok) ==
  /\ fx.pc = "inserting"
  /\ fx' = IF ok
           THEN LET b == batch(fx.n, fx.i)
                IN forLoop([fx EXCEPT !.totalInserted = @ + (b.hi - b.lo + 1)],
                           fx.i + batchSize)
           ELSE exit(fx)
  /\ UNCHANGED <<variant, virtualMode, filters, page, cache, prevResult, view,
                 net, failures, st, ev>>

\* the row count settles; a failed count is only a warning
CountSettles(ok) ==
  /\ fx.pc = "counting"
  /\ fx' = [fx EXCEPT !.pc = "finished", !.code = 0]
  /\ UNCHANGED <<variant, virtualMode, filters, page, cache, prevResult, view,
                 net, failures, st, ev>>

\* a data file of n records, readable or not, and an environment with or
\* without the Supabase settings
InitSeed ==
  /\ variant = "seed"
  /\ virtualMode = FALSE
  /\ filters = NoFilter
  /\ page = 1
  /\ cache = [k \in {} |-> QueryInit]
  /\ prevResult = NoPrev
  /\ view = CreateResult(Key(NoFilter, 1), QueryInit, NoPrev)
  /\ st = NoState
  /\ net = {}
  /\ failures = 0
  /\ \E n \in 0..(MaxBatches * batchSize), e \in BOOLEAN, r \in BOOLEAN :
       fx = [pc |-> "start", env |-> e, readable |-> r, n |-> n, i |-> 0,
             calls |-> <<>>, totalInserted |-> 0, code |-> -1,
             failed |-> FALSE]
  /\ ev = Other

NextSeed ==
  \/ main
  \/ \E ok \in BOOLEAN : DeleteSettles(ok)
  \/ \E ok \in BOOLEAN : InsertSettles(ok)
  \/ \E ok \in BOOLEAN : CountSettles(ok)

SpecSeed == InitSeed /\ [][NextSeed]_vars

\* ---------------------------------------------------------------------
\* The virtualized table of the query hooks while every fetch succeeds: the
\* network answers every call, React renders every result, and the list
\* keeps calling onItemsRendered with a last visible index within the
\* threshold of the end of the rows it has.

\* an onItemsRendered call whose index is within the threshold
ScrollNearEnd ==
  \E v \in VisibleStops(Len(defects(view))) :
    v >= Len(defects(view)) - threshold /\ onItemsRendered(v)

Answer == \E c \in net : Arrive(c, TRUE)

NextScroll ==
  \/ \E f \in FilterSet : handleFilterChange(f)
  \/ \E v \in VisibleStops(Len(defects(view))) : onItemsRendered(v)
  \/ Answer
  \/ Render

SpecScroll ==
  /\ InitInfinite
  /\ [][NextScroll]_vars
  /\ WF_vars(Render)
  /\ WF_vars(Answer)
  /\ WF_vars(ScrollNearEnd)

\* ---------------------------------------------------------------------
\* The retryer of one query under the query client's default options
\* (retry: 2 and retryDelay of main.jsx), with a clock in milliseconds.

\* a delay that doubles without a cap
UncappedDelay(attemptIndex) == 1000 * 2^attemptIndex

\* retryDelay: attemptIndex => Math.min(1000 * 2 ** attemptIndex, 30000)
retryDelay(attemptIndex) == Min(1000 * 2^attemptIndex, 30000)

\* an attempt of the queryFn settles. After a failure the retryer computes
\* the delay from the failure count it has, then counts the failure and
\* sleeps, or rejects when no retry is left
AttemptSettles(ok) ==
  /\ st.q.fetchStatus = "fetching"
  /\ st.q.running
  /\ st' = IF ok
           THEN [st EXCEPT !.q = SuccessAction(st.q, <<Response(NoFilter, 1, PAGE_SIZE)>>)]
           ELSE IF ShouldRetry(st.q)
           THEN [st EXCEPT !.q = FailedAttempt(st.q),
                           !.due = st.now + retryDelay(st.q.failureCount),
                           !.delays = Append(@, retryDelay(st.q.failureCount))]
           ELSE [st EXCEPT !.q = FailedAttempt(st.q)]
  /\ UNCHANGED <<variant, virtualMode, filters, page, cache, prevResult, view,
                 net, failures, fx, ev>>

\* the sleep is over: the next attempt starts, unless the retry was cancelled
SleepEnds ==
  /\ st.q.fetchStatus = "fetching"
  /\ ~st.q.running
  /\ st.now >= st.due
  /\ st' = IF st.q.retryCancelled
           THEN [st EXCEPT !.q = ErrorAction(st.q)]
           ELSE [st EXCEPT !.q.running = TRUE, !.attempts = @ + 1,
                           !.started = Append(@, st.now)]
  /\ UNCHANGED <<variant, virtualMode, filters, page, cache, prevResult, view,
                 net, failures, fx, ev>>

\* the last observer of the query unsubscribes: its retries are cancelled
Unsubscribe ==
  /\ st.observed
  /\ st' = [st EXCEPT !.observed = FALSE,
                      !.q = RemoveObserver([k \in {1} |-> st.q], 1)[1]]
  /\ UNCHANGED <<variant, virtualMode, filters, page, cache, prevResult, view,
                 net, failures, fx, ev>>

\* time passes
ClockTick ==
  /\ st.now + RetryTick <= MaxClock
  /\ st' = [st EXCEPT !.now = @ + RetryTick]
  /\ UNCHANGED <<variant, virtualMode, filters, page, cache, prevResult, view,
                 net, failures, fx, ev>>

\* the first attempt of the query is running
InitRetry ==
  /\ variant = "retryer"
  /\ virtualMode = FALSE
  /\ filters = NoFilter
  /\ page = 1
  /\ cache = [k \in {} |-> QueryInit]
  /\ prevResult = NoPrev
  /\ view = CreateResult(Key(NoFilter, 1), QueryInit, NoPrev)
  /\ st = [q |-> FetchAction(QueryInit, "none", 1), now |-> 0, due |-> 0,
           delays |-> <<>>, attempts |-> 1, started |-> <<0>>,
           observed |-> TRUE]
  /\ net = {}
  /\ failures = 0
  /\ fx = NoFetch
  /\ ev = Other

NextRetry ==
  \/ \E ok \in BOOLEAN : AttemptSettles(ok)
  \/ SleepEnds
  \/ Unsubscribe
  \/ ClockTick

SpecRetry == InitRetry /\ [][NextRetry]_vars

\* ---------------------------------------------------------------------
\* DefectFilters: the draft (localFilters) the fields edit, and App's
\* active filter and page, which the Apply and Clear buttons set through
\* onFilterChange. The three versions of the component differ in the
\* effect that follows a render: the first has none on the draft, the
\* second writes the active registration into the draft when the search
\* results do not hold it, the third adds the draft's registration to the
\* options. A defect fetch is counted when the query key (filters, page)
\* of App changes.

DefectFiltersVersions == {"aircraftList", "useAircraftSearch", "searchAircraft"}

FieldValues ==
  [aircraft_registration |-> {"", "OH-LZA", "OH-LZB"},
   severity |-> {"", "High", "Low"}]

\* searchResults?.aircraft, or the aircraftOptions state
NoResults == [defined |-> FALSE, aircraft |-> {}]

Results(S) == [defined |-> TRUE, aircraft |-> S]

\* an edit that resets the rest of the draft
ResetOthers(prev, field, value) == [NoFilter EXCEPT ![field] = value]

\* setLocalFilters(prev => ({ ...prev, [field]: value }))
handleLocalFilterChange(prev, field, value) == [prev EXCEPT ![field] = value]

\* the effects of the component after a render with draft d, options o and
\* active filter f; changed: a dependency of the effect differs from the
\* previous render (an undefined search result gives a new [] every render)
AfterRender(impl, d, o, f, changed) ==
  IF impl = "useAircraftSearch"
  THEN [localFilters |->
          IF /\ changed \/ ~o.defined
             /\ f.aircraft_registration # ""
             /\ f.aircraft_registration \notin o.aircraft
          THEN [d EXCEPT !.aircraft_registration = f.aircraft_registration]
          ELSE d,
        aircraftOptions |-> o]
  ELSE IF impl = "searchAircraft"
  THEN [localFilters |-> d,
        aircraftOptions |->
          IF d.aircraft_registration # ""
          THEN Results(o.aircraft \cup {d.aircraft_registration}) ELSE o]
  ELSE [localFilters |-> d, aircraftOptions |-> o]

\* the state of the component and the fetch count after a handler that
\* leaves draft d, options o, and App with filter f and page p
Commit(op, field, value, d, o, f, p) ==
  LET r == AfterRender(st.impl, d, o, f,
                       o # st.aircraftOptions
                         \/ f.aircraft_registration # filters.aircraft_registration
                         \/ d.aircraft_registration # st.localFilters.aircraft_registration)
  IN /\ st' = [st EXCEPT !.localFilters = r.localFilters,
                         !.aircraftOptions = r.aircraftOptions,
                         !.last = [op |-> op, field |-> field, value |-> value],
                         !.requests = IF f # filters \/ p # page THEN @ + 1 ELSE @]
     /\ filters' = f
     /\ page' = p
     /\ UNCHANGED <<variant, virtualMode, cache, prevResult, view, net,
                    failures, fx, ev>>

\* a field of the form is edited
EditField(field, value) ==
  Commit("edit", field, value, handleLocalFilterChange(st.localFilters, field, value),
         st.aircraftOptions, filters, page)

\* handleApplyFilters: onFilterChange(localFilters), and App's
\* handleFilterChange sets the filter and page 1
handleApplyFilters ==
  /\ st.requests < MaxRequests
  /\ Commit("apply", "", "", st.localFilters, st.aircraftOptions, st.localFilters, 1)

\* handleClearFilters: the draft and the active filter are emptied
handleClearFilters ==
  /\ st.requests < MaxRequests
  /\ Commit("clear", "", "", NoFilter, st.aircraftOptions, NoFilter, 1)

\* App.handlePageChange from the table
DraftPageChange(newPage) ==
  /\ st.requests < MaxRequests
  /\ newPage # page
  /\ Commit("page", "", "", st.localFilters, st.aircraftOptions, filters, newPage)

\* the aircraft search of the registration field gives other options
SearchResultsChange(o) ==
  /\ o # st.aircraftOptions
  /\ Commit("search", "", "", st.localFilters, o, filters, page)

InitDraft ==
  /\ variant = "filters"
  /\ virtualMode = FALSE
  /\ filters = NoFilter
  /\ page = 1
  /\ cache = [k \in {} |-> QueryInit]
  /\ prevResult = NoPrev
  /\ view = CreateResult(Key(NoFilter, 1), QueryInit, NoPrev)
  /\ \E impl \in DefectFiltersVersions :
       st = [impl |-> impl, localFilters |-> NoFilter,
             aircraftOptions |-> IF impl = "useAircraftSearch" THEN NoResults
                                 ELSE Results({}),
             last |-> [op |-> "mount", field |-> "", value |-> ""], requests |-> 1]
  /\ net = {}
  /\ failures = 0
  /\ fx = NoFetch
  /\ ev = Other

NextDraft ==
  \/ \E field \in DOMAIN FieldValues :
       \E value \in FieldValues[field] : EditField(field, value)
  \/ handleApplyFilters
  \/ handleClearFilters
  \/ \E n \in 1..MaxPage : DraftPageChange(n)
  \/ \E o \in {NoResults, Results({}), Results({"OH-LZA"}), Results({"OH-LZB"})} :
       SearchResultsChange(o)

SpecDraft == InitDraft /\ [][NextDraft]_vars

\* ---------------------------------------------------------------------
\* calculateAnalyticsFromSupabase: the loop that reads the defects table in
\* chunks, then the statistics over all rows read. The table holds rows
\* 1..n in the order of the query; a chunk is the range of rows returned.

\* .range(from, to) on a table of n rows: rows from + 1 .. to + 1, as far
\* as the table goes
range(n, from, to) == [lo |-> Min(from, n) + 1, hi |-> Min(to + 1, n)]

length(chunk) == chunk.hi - chunk.lo + 1

\* a loop that goes on while the chunk has any row
AnyRow(data) == length(data) > 0

\* hasMore = data.length === pageSize
FullPage(data) == length(data) = pageSize

\* the number of rows with severity High in a chunk
HighIn(chunk) ==
  Cardinality({r \in chunk.lo..chunk.hi : Severity(r) = "High"})

\* allData.length
RECURSIVE RowCount(_)
RowCount(chunks) ==
  IF chunks = <<>> THEN 0 ELSE length(chunks[1]) + RowCount(Tail(chunks))

\* the rows of allData with severity High
RECURSIVE HighCount(_)
HighCount(chunks) ==
  IF chunks = <<>> THEN 0 ELSE HighIn(chunks[1]) + HighCount(Tail(chunks))

NoStatistics == [total_defects |-> -1, severity_distribution |-> <<>>]

\* the statistics over allData, the chunks pushed
Statistics(allData) ==
  LET total == RowCount(allData)
      high == HighCount(allData)
  IN [total_defects |-> total,
      severity_distribution |->
        [s \in (IF high > 0 THEN {"High"} ELSE {}) \cup
               (IF total - high > 0 THEN {"Low"} ELSE {}) |->
           IF s = "High" THEN high ELSE total - high]]

\* the head of the while loop: the request for chunk number f.page
whileHasMore(f) ==
  [f EXCEPT !.pc = "await",
            !.requests = Append(@, [from |-> f.page * pageSize,
                                    to |-> (f.page + 1) * pageSize - 1])]

\* calculateAnalyticsFromSupabase up to its first await
calculateAnalyticsFromSupabase ==
  /\ fx.pc = "start"
  /\ fx' = whileHasMore(fx)
  /\ UNCHANGED <<variant, virtualMode, filters, page, cache, prevResult, view,
                 net, failures, st, ev>>

\* the request of a chunk settles: an error is thrown; rows are pushed and
\* the loop goes on after a full chunk; then the statistics are returned
ChunkSettles(ok) ==
  /\ fx.pc = "await"
  /\ fx' = IF ~ok THEN [fx EXCEPT !.pc = "thrown"]
           ELSE LET q == fx.requests[Len(fx.requests)]
                    data == range(fx.n, q.from, q.to)
                    pushed == IF length(data) > 0
                              THEN [fx EXCEPT !.allData = Append(@, data),
                                              !.page = @ + 1]
                              ELSE fx
                IN IF length(data) > 0 /\ FullPage(data)
                   THEN whileHasMore(pushed)
                   ELSE [pushed EXCEPT !.pc = "returned",
                                       !.result = Statistics(pushed.allData)]
  /\ UNCHANGED <<variant, virtualMode, filters, page, cache, prevResult, view,
                 net, failures, st, ev>>

\* a table of n rows
InitAnalytics ==
  /\ variant = "analytics"
  /\ virtualMode = FALSE
  /\ filters = NoFilter
  /\ page = 1
  /\ cache = [k \in {} |-> QueryInit]
  /\ prevResult = NoPrev
  /\ view = CreateResult(Key(NoFilter, 1), QueryInit, NoPrev)
  /\ st = NoState
  /\ net = {}
  /\ failures = 0
  /\ \E n \in 0..(MaxChunks * pageSize) :
       fx = [pc |-> "start", n |-> n, page |-> 0, allData |-> <<>>,
             requests |-> <<>>, result |-> NoStatistics]
  /\ ev = Other

NextAnalytics ==
  \/ calculateAnalyticsFromSupabase
  \/ \E ok \in BOOLEAN : ChunkSettles(ok)

SpecAnalytics == InitAnalytics /\ [][NextAnalytics]_vars

\* ---------------------------------------------------------------------
\* Properties

\* the pages 1..n of filter f as the hooks request them
PagesOf(f, n) == [i \in 1..n |-> Response(f, i, HookPageSize)]

\* the calls in flight that fetch a next page of query k
NextPageCalls(n, k) == {c \in n : c.key = k /\ c.direction = "forward"}

\* C1: in infinite mode at most one next-page fetch call is outstanding at
\* any time, whatever the sequence of onItemsRendered calls
C1_SingleNextPageFetch ==
  \A k \in QueryKeys : Cardinality(NextPageCalls(net, k)) <= 1

C4_WindowIsPagePrefix ==
  \A k \in QueryKeys :
    k.p = 0 =>
      LET ps == cache[k].pages
          w == flatMap(ps)
      IN /\ \A i \in 1..Len(ps) : ps[i] = Response(k.f, i, HookPageSize)
         /\ w = SubSeq(Rows(k.f), 1, Min(Len(ps) * PAGE_SIZE, Len(Rows(k.f))))
         /\ Cardinality({w[i] : i \in 1..Len(w)}) = Len(w)
         /\ \A c \in net : c.key = k /\ c.live => c.page = Len(ps) + 1

\* every page of the unfiltered query has been fetched and is shown
C4_Witness ==
  /\ virtualMode
  /\ filters = NoFilter
  /\ Len(view.pages) >= 3
  /\ Len(defects(view)) = DatasetSize

\* C6: onItemsRendered triggers a fetch iff the rendered hasNextPage is true,
\* isFetchingNextPage is false and visibleStopIndex >= defects.length - 10;
\* the fetch is for the current filter, the last loaded page + 1, 50 rows,
\* and it is the only next-page fetch outstanding
C6_TriggerExactlyOnce ==
  [][ev'.op = "onItemsRendered" =>
       /\ ev'.fetched <=> shouldLoadMore(ev'.v)
       /\ ev'.fetched =>
            \E c \in net' :
              /\ c.live
              /\ c.key = ObservedKey
              /\ c.key.f = filters
              /\ c.page = view.pages[Len(view.pages)].page + 1
              /\ EffectiveSize(c.page_size) = PAGE_SIZE
              /\ NextPageCalls(net', c.key) = {c}]_vars

\* the last attempt of a next-page fetch of query k fails in this step
NextPageFetchFails(k) ==
  /\ cache[k].fetchStatus = "fetching"
  /\ cache[k].direction = "forward"
  /\ ~ShouldRetry(cache[k])
  /\ failures' = failures + 1
  /\ \E c \in net \ net' : c.live /\ c.key = k

\* what C7 asks of a step
NextPageFailureStep ==
  /\ \A k \in QueryKeys :
       NextPageFetchFails(k) =>
         /\ cache'[k].pages = cache[k].pages
         /\ cache'[k].pages # <<>>
         /\ CreateResult(k, cache'[k], prevResult').error
         /\ ~CreateResult(k, cache'[k], prevResult').isFetchingNextPage
         /\ cache'[k].fetchStatus = "idle"
         /\ cache'[k].param = cache[k].param
  /\ (ev'.op = "onItemsRendered" /\ ev'.fetched /\ cache[ObservedKey].hasError) =>
       \E c \in net' :
         c.live /\ c.key = ObservedKey /\ c.page = cache[ObservedKey].param

\* C7: when a next-page fetch fails the window is the one from before the
\* fetch, the error is in the result App reads, isFetchingNextPage is false,
\* and a later onItemsRendered that triggers asks for the same page again
C7_NextPageFailure == [][NextPageFailureStep]_vars

\* a next-page fetch failed, App rendered the error, and the list asked again
C7_Witness ==
  /\ ev.op = "onItemsRendered"
  /\ ev.fetched
  /\ cache[ObservedKey].hasError
  /\ cache[ObservedKey].fetchStatus = "fetching"
  /\ view.error

\* C3: in pagination mode the last request wins: once no request is
\* outstanding and the newest one has succeeded, the displayed rows and total
\* are those of the active filter and the page held
C3_LastRequestWins ==
  (net = {} /\ ~st.loading /\ ~st.error) =>
    LET r == Response(filters, st.pagination.page, st.pagination.pageSize)
    IN /\ st.defects = r.data
       /\ st.pagination.total = r.total

FilterChangeStep(k) ==
  /\ page' = 1
  /\ k = CurrentKey(filters', 1)
  /\ view' = CurrentResult'
  /\ view'.pagination.hasMore =
       (view'.pages # <<>> /\ k.p # 0 /\ view'.pages[1].has_more)
  /\ cache'[k].pages = <<>> =>
       /\ cache'[k].fetchStatus = "fetching"
       /\ ~view'.hasNextPage
       /\ cache'[k].param = 1
       /\ cache'[k].running => \E c \in net' : c.live /\ c.key = k /\ c.page = 1
       /\ IF view.isSuccess /\ (k.p # 0 \/ variant = "hooks2")
          THEN view'.isPreviousData /\ view'.pages = view.pages
          ELSE view'.pages = <<>>

C8_RowsKeptOnError ==
  [][(/\ cache[ObservedKey].status # "error"
      /\ cache'[ObservedKey].status = "error"
      /\ filters' = filters
      /\ page' = page) =>
       /\ CurrentResult'.error
       /\ defects(CurrentResult') = defects(view)]_vars

\* a step issues a call without a scroll trigger, page change or filter change
AutomaticCall ==
  /\ Cardinality(net') > Cardinality(net)
  /\ ev'.op # "onItemsRendered"
  /\ filters' = filters
  /\ page' = page

\* C9 as stated: after a failed fetch no call is issued until a user action
C9_NoAutoRetry == [][~AutomaticCall]_vars

\* what C9 asks of a step
RetryStep ==
  /\ AutomaticCall =>
       \E k \in QueryKeys :
         /\ cache[k].fetchStatus = "fetching"
         /\ ~cache[k].running
         /\ cache[k].failureCount \in 1..retry
         /\ cache'[k].failureCount = cache[k].failureCount
         /\ \E c \in net' : c.live /\ c.key = k /\ c.page = cache[k].param
  /\ \A k \in QueryKeys :
       /\ cache'[k].failureCount <= retry + 1
       /\ cache'[k].status = "error" =>
            /\ cache'[k].hasError
            /\ CreateResult(k, cache'[k], prevResult').error
       /\ (cache'[k].status = "error" /\ cache'[k].fetchStatus = "idle") =>
            ~\E c \in net' : c.live /\ c.key = k

\* C9: the query client re-issues a failed fetch by itself at most `retry`
\* times; then the query is in the error state, carrying the error, and no
\* call for it is issued or outstanding until a user action
C9_BoundedAutoRetry == [][RetryStep]_vars

\* the third attempt of a fetch is in flight after two failures
C9_Witness ==
  \E k \in QueryKeys :
    /\ cache[k].failureCount = retry
    /\ cache[k].fetchStatus = "fetching"
    /\ cache[k].running
    /\ \E c \in net : c.live /\ c.key = k

\* the invocation of the fetcher has ended
Ended == fx.pc \in {"returned", "thrown"}

RowRange(f, from, to) ==
  LET t == Len(Rows(f))
      n == IF from >= t THEN 0 ELSE Min(to, t) - from
  IN [i \in 1..n |-> Rows(f)[from + i]]

\* C11: for page p, page size s and exact total t the fetcher asks for the
\* rows [(p-1)s, (p-1)s + s) and returns them with has_more = ((p-1)s + s < t);
\* the next page starts where this one ends, and among the non-empty pages
\* has_more is false exactly on the last one (50, 50 and the rest for s = 50)
C11_PaginationMath ==
  LET s == EffectiveSize(fx.page_size)
      offset == (fx.page - 1) * s
      t == Len(Rows(fx.f))
      r == fx.result
  IN /\ \A i \in 1..Len(fx.calls) :
          fx.calls[i].to = "supabase" => fx.calls[i].range = <<offset, offset + s - 1>>
     /\ fx.pc = "returned" =>
          /\ r.data = RowRange(fx.f, offset, offset + s)
          /\ r.total = t
          /\ r.page = fx.page
          /\ r.page_size = s
          /\ r.has_more = (offset + s < t)
          /\ Len(r.data) = (IF offset + s <= t THEN s ELSE IF offset < t THEN t - offset ELSE 0)
          /\ r.data # <<>> => (~r.has_more <=> offset + Len(r.data) = t)
          /\ r.has_more =>
               Response(fx.f, fx.page + 1, fx.page_size).data =
                 RowRange(fx.f, offset + s, offset + 2 * s)

\* page 3 of the unfiltered rows at 50 a page: the short last page
C11_Witness ==
  /\ fx.pc = "returned"
  /\ fx.f = NoFilter
  /\ fx.page = 3
  /\ EffectiveSize(fx.page_size) = PAGE_SIZE
  /\ Len(fx.result.data) = DatasetSize - 2 * PAGE_SIZE
  /\ Len(fx.result.data) < PAGE_SIZE
  /\ ~fx.result.has_more

\* C12 as stated: a burst of changes of the search text, each less than
\* 300 ms after the previous one, makes at most one call of searchAircraft,
\* and that call carries the final text of the burst
C12_OneCallPerBurst ==
  \A i \in 1..Len(st.calls) :
    /\ st.calls[i].value = st.finals[st.calls[i].burst]
    /\ \A j \in 1..Len(st.calls) : st.calls[j].burst = st.calls[i].burst => j = i

\* C12: every call of searchAircraft carries the final text of the burst of
\* changes it was made for, never an intermediate one; a burst makes at most
\* one call, which only the query client repeats, at most retry times and
\* only after it failed, with the same text
C12_FinalValueOnly ==
  \A i \in 1..Len(st.calls) :
    /\ st.calls[i].value = st.finals[st.calls[i].burst]
    /\ st.calls[i].attempt <= 1 + retry
    /\ st.impl = "debounce" => st.calls[i].attempt = 1
    /\ st.calls[i].attempt > 1 => failures >= st.calls[i].attempt - 1
    /\ \A j \in 1..Len(st.calls) :
         (/\ st.calls[j].burst = st.calls[i].burst
          /\ st.calls[j].attempt = st.calls[i].attempt) => j = i

\* the texts "O", "OH", "OH-1" typed in one burst gave one call, for "OH-1"
C12_Witness ==
  /\ st.changes = 3
  /\ st.finals = <<"OH-1">>
  /\ st.calls = <<SearchCall("OH-1", 1, 1)>>
  /\ st.timers = {}

\* what a step of the search widget may do to its debounce timer
SingleTimerStep ==
  /\ Cardinality(st'.timers) <= 1
  /\ st'.input # st.input => st'.timers = {Timer(st'.input, st.now)}
  /\ st'.effective # st.effective =>
       /\ st.timers = {Timer(st'.effective, st.lastChange)}
       /\ st'.effective = st.input
  /\ Len(st'.calls) > Len(st.calls) =>
       st'.calls[Len(st'.calls)].value \in {st.input, st.effective}

\* C13: a search input has at most one pending debounce timer; a change of
\* the text leaves only the timer it starts, the pending one being cancelled;
\* the value that propagates when a timer fires is the value of the latest
\* change, never the value of a cancelled timer
C13_SingleTimer == [][SingleTimerStep]_vars

\* two changes in one burst: the timer of "O" was cancelled by the change to
\* "OH", whose timer has fired and propagated "OH"
C13_Witness ==
  /\ st.changes = 2
  /\ st.finals = <<"OH">>
  /\ st.effective = "OH"
  /\ st.timers = {}
  /\ st.calls # <<>>

\* C14: once the filter widget is unmounted no debounce timer is pending, so
\* none fires later and no search call is made after the unmount, with the
\* useDebounce hook and with the in-component debounce helper
C14_TimerCancelledOnUnmount ==
  ~st.mounted => (st.timers = {} /\ ~st.deadCall)

\* the number of times id x occurs in the sequence of toggled ids
RECURSIVE Occurrences(_, _)
Occurrences(log, x) ==
  IF log = <<>> THEN 0
  ELSE (IF log[1] = x THEN 1 ELSE 0) + Occurrences(Tail(log), x)

\* VirtualRow: isExpanded of the row at position i
isExpanded(i) == items(st.f, st.pages)[i] \in st.expandedRows

\* C15: under a fixed filter, for any interleaving of toggleExpanded calls
\* and next-page appends, a row is shown expanded exactly when its id has
\* been toggled an odd number of times: expansion follows the row's id, a
\* toggle of one id changes no other id, and an append changes no row's
\* expansion
C15_ExpandedIffOddToggles ==
  /\ \A i \in 1..Len(items(st.f, st.pages)) :
       isExpanded(i) <=> Occurrences(st.toggles, items(st.f, st.pages)[i]) % 2 = 1
  /\ st.expandedRows \subseteq {items(st.f, st.pages)[i] : i \in 1..Len(items(st.f, st.pages))}

\* under the severity filter (ids differ from positions), with every page
\* appended: one row toggled twice is collapsed, another toggled once is expanded
C15_Witness ==
  /\ st.f # NoFilter
  /\ st.pages = MaxPage
  /\ Len(st.toggles) = 3
  /\ \E x \in st.expandedRows : Occurrences(st.toggles, x) = 1
  /\ \E i \in 1..Len(items(st.f, st.pages)) :
       /\ Occurrences(st.toggles, items(st.f, st.pages)[i]) = 2
       /\ ~isExpanded(i)

\* the sum of the first n elements of a sequence of sizes
RECURSIVE SumTo(_, _)
SumTo(sizes, n) == IF n = 0 THEN 0 ELSE SumTo(sizes, n - 1) + sizes[n]

\* the current heights of the rows at the indexes 0..n-1
CurrentHeights(n) ==
  [j \in 1..n |-> getItemSize(st.impl, items(st.f, st.pages), st.expandedRows, j - 1)]

\* C19: in every variant of VirtualizedDefectTable, after any toggle the
\* list's offset of each measured row j is the sum of the current heights of
\* the rows 0..j-1, and its size is the row's current height (collapsed, or
\* collapsed + 140 when expanded)
C19_OffsetsFollowHeights ==
  \A j \in 1..Len(st.sizes) :
    /\ st.sizes[j] = CurrentHeights(Len(st.sizes))[j]
    /\ SumTo(st.sizes, j - 1) = SumTo(CurrentHeights(Len(st.sizes)), j - 1)

\* the same for the later table alone, whose toggleExpanded resets the cache
LaterTableOffsetsFollowHeights ==
  st.impl = "resetAfterIndex" => C19_OffsetsFollowHeights

\* C16: after its component is unmounted, no loader applies a response that
\* arrives late: no state setter of the unmounted component runs
C16_NoSetterAfterUnmount == ~st.deadSet

\* the calls of invocation fx made to module m
CallsTo(m) == {i \in 1..Len(fx.calls) : fx.calls[i] = m}

\* C17: getDefects, searchAircraft and getAnalytics return the Supabase
\* result when Supabase is available and its request succeeds, and then the
\* fallback is not called; when Supabase is unavailable or its request
\* failed they return the fallback's result for the same arguments; an
\* error reaches the caller only when the request to the fallback failed
C17_FallbackOrder ==
  /\ fx.result.from = "supabase" =>
       /\ fx.available
       /\ CallsTo("fastapi") = {}
       /\ fx.result = ServiceResult(fx, "supabase")
  /\ (fx.pc = "returned" /\ fx.result.from # "supabase") =>
       /\ fx.result.from = "fastapi"
       /\ fx.result \in {ServiceResult(fx, "fastapi"), EmptySearch}
       /\ Cardinality(CallsTo("fastapi")) = 1
       /\ fx.available <=> CallsTo("supabase") # {}
  /\ CallsTo("fastapi") # {} => (~fx.available \/ CallsTo("supabase") # {})
  /\ fx.pc = "thrown" =>
       (fx.calls # <<>> /\ fx.calls[Len(fx.calls)] = "fastapi")

\* the same, but for getDefects called without a page_size
ServiceFallbackOrderWithPageSize ==
  (fx.fn = "getDefects" /\ fx.page_size = Absent) \/ C17_FallbackOrder

\* C18: rendering a row whose reported_at is no valid date gives an empty or
\* placeholder date text and never throws, in every row renderer and in the
\* date utility functions
C18_InvalidDateNeverThrows ==
  /\ ~st.thrown
  /\ \A i \in 1..Len(st.cells) :
       ~isValid(NewDate(st.rows[i])) => st.cells[i] \in {"", "Invalid Date"}

\* the same for the renderers that test the date with isValid
CheckedRenderersNeverThrow ==
  st.renderer \in {"utils/date", "DefectRow", "VirtualRow"} =>
    C18_InvalidDateNeverThrows

\* what DefectInsights shows for the current window
ShownCard == InsightsCard(st.insights[st.pages], items(st.f, st.pages))

\* the statistic shown is the local calculation over the current window,
\* with its label
ShowsLocal(card) ==
  /\ card.kind = "stat"
  /\ card.label
  /\ card.value = calculateFallbackInsights(items(st.f, st.pages))
  /\ card.value.total_defects = Len(items(st.f, st.pages))

\* the statistic shown is the server's for the current window, without label
ShowsServer(card) ==
  /\ card.kind = "stat"
  /\ ~card.label
  /\ card.value = ServerInsights(items(st.f, st.pages))

\* C20: when the summary or the insights call has failed, the statistic
\* shown is computed client-side from exactly the rows of the loaded window
\* and carries the label of a local calculation; when the call succeeded
\* the server's value is shown without that label
C20_LocalStatisticOnFailure ==
  /\ st.insights[st.pages].status = "error" => ShowsLocal(ShownCard)
  /\ (st.analytics.status = "error" /\ ShownCard.kind = "stat") =>
       ShowsLocal(ShownCard)
  /\ st.insights[st.pages].status = "success" => ShowsServer(ShownCard)

\* the same for the insights call alone
InsightsLocalOnFailure ==
  /\ st.insights[st.pages].status = "error" => ShowsLocal(ShownCard)
  /\ st.insights[st.pages].status = "success" => ShowsServer(ShownCard)
  /\ st.insights[st.pages].status = "loading" => ShownCard.kind = "spinner"

\* the requests that the page fetcher sends to the data sources for call c:
\* the range query of the primary source, and the request to the REST
\* backend, which getDefects cannot build when no page_size was passed
RequestsOf(c) ==
  {Request("supabase", c)} \cup
  (IF variant # "hooks1" /\ c.page_size = Absent THEN {}
   ELSE {Request("fastapi", c)})

PaginationOf(r) ==
  [page |-> r.page, pageSize |-> r.page_size, total |-> r.total,
   hasMore |-> r.has_more]

\* C22: in pagination mode the rows of the table shown all come from one
\* page response, and the page number, page size and total shown with them
\* come from that same response
C22_WindowFromOneResponse ==
  (~st.loading /\ st.defects # <<>>) =>
    \E f \in FilterSet, p \in 1..MaxPage :
      /\ st.defects = Response(f, p, PAGE_SIZE).data
      /\ st.pagination = PaginationOf(Response(f, p, PAGE_SIZE))

\* the same for the App of the query hooks, which derives rows and
\* pagination from the one response of its observer result
HooksWindowFromOneResponse ==
  (~virtualMode /\ view.pages # <<>>) =>
    /\ Len(view.pages) = 1
    /\ defects(view) = view.pages[1].data
    /\ view.pagination = PaginationOf(view.pages[1])
    /\ \E f \in FilterSet, p \in 1..MaxPage :
         view.pages[1] = Response(f, p, HookPageSize)

\* the search term occurs in registration r, letter case ignored
Contains(r, searchTerm) ==
  \E i \in 0..(Len(r) - Len(searchTerm)) :
    \A j \in 1..Len(searchTerm) : Lower(r[i + j]) = Lower(searchTerm[j])

\* the term has none of the characters that LIKE reads as wildcards
Literal(searchTerm) ==
  \A j \in 1..Len(searchTerm) : searchTerm[j] \notin {"%", "_"}

\* the registrations returned are distinct and at most 50
DistinctAndCapped ==
  /\ Len(fx.aircraft) <= ResultCap
  /\ \A i, j \in 1..Len(fx.aircraft) : fx.aircraft[i] = fx.aircraft[j] => i = j
  /\ \A i \in 1..Len(fx.aircraft) : fx.aircraft[i] \in DOMAIN Datasets[fx.dataset]

RECURSIVE FlattenRows(_, _)
FlattenRows(seq, counts) ==
  IF seq = <<>> THEN <<>>
  ELSE [i \in 1..counts[seq[1]] |-> seq[1]] \o FlattenRows(Tail(seq), counts)

\* C30: when the table holds at most 50 distinct registrations matching the
\* search term, searchAircraftSupabase returns all of them, whatever the
\* number of rows of each
C30_AllMatchesReturned ==
  (/\ fx.pc = "returned"
   /\ Cardinality(Matching(Datasets[fx.dataset], fx.term)) <= ResultCap) =>
    {fx.aircraft[i] : i \in 1..Len(fx.aircraft)} =
      Matching(Datasets[fx.dataset], fx.term)

\* the same, for tables with at most 100 matching rows
AllMatchesOfFewRows ==
  LET counts == Datasets[fx.dataset]
      found == Matching(counts, fx.term)
  IN (/\ fx.pc = "returned"
      /\ Cardinality(found) <= ResultCap
      /\ Len(FlattenRows(Sorted(found), counts)) <= RowLimit) =>
       {fx.aircraft[i] : i \in 1..Len(fx.aircraft)} = found

\* the insert calls of the seeding script, in the order sent
Inserts == SelectSeq(fx.calls, LAMBDA c : c.op = "insert")

\* C24: the seeding script sends the delete before any insert; the inserts
\* are consecutive batches of at most 1000 records in input order; on
\* success every record was inserted exactly once and the inserted total is
\* the input length; after a failed delete or insert no further request is
\* sent and the exit code is 1
C24_DeleteThenBatches ==
  /\ fx.calls # <<>> => fx.calls[1].op = "delete"
  /\ \A k \in 2..Len(fx.calls) : fx.calls[k].op # "delete"
  /\ \A k \in 1..Len(Inserts) :
       /\ Inserts[k].lo = (IF k = 1 THEN 1 ELSE Inserts[k - 1].hi + 1)
       /\ Inserts[k].hi >= Inserts[k].lo
       /\ Inserts[k].hi - Inserts[k].lo + 1 <= batchSize
       /\ Inserts[k].hi <= fx.n
  /\ fx.pc \in {"counting", "finished"} =>
       /\ fx.totalInserted = fx.n
       /\ (IF fx.n = 0 THEN Inserts = <<>>
           ELSE Inserts[Len(Inserts)].hi = fx.n)
  /\ fx.pc = "finished" => fx.code = 0
  /\ fx.failed =>
       /\ fx.pc = "exited"
       /\ fx.code = 1
       /\ ~fx.readable \/ fx.calls[Len(fx.calls)].op \in {"delete", "insert"}
       /\ fx.totalInserted < fx.n \/ fx.n = 0

\* three batches, the last one short, all inserted
C24_Witness ==
  /\ fx.pc = "finished"
  /\ Len(Inserts) = 3
  /\ Inserts[3].hi - Inserts[3].lo + 1 < batchSize
  /\ fx.totalInserted = fx.n

\* the second batch failed: nothing was sent after it
SeedStoppedAtFailure ==
  /\ fx.failed
  /\ Len(Inserts) = 2
  /\ fx.n > 2 * batchSize

\* the infinite query of filter f has every row and no next page, and the
\* table shows it
WindowComplete(f) ==
  LET q == cache[Key(f, 0)]
  IN /\ q.pages # <<>>
     /\ ~hasNextPage(q.pages)
     /\ flatMap(q.pages) = Rows(f)
     /\ ~view.hasNextPage
     /\ defects(view) = Rows(f)

\* a step that leaves the filter alone once its window is complete sends
\* no request
NoFetchOnceComplete ==
  (WindowComplete(filters) /\ filters' = filters) => net' \subseteq net

\* C25: under a filter that stays fixed, with every fetch succeeding and
\* the list reporting indexes within 10 rows of the end, the infinite
\* controller reaches hasNextPage = false with exactly the rows of the
\* filter; from then on no page fetch is issued until the filter changes
C25_WindowCompletes ==
  /\ [][NoFetchOnceComplete]_vars
  /\ \A f \in FilterSet : <>[](filters = f) => <>[]WindowComplete(f)

\* all rows of the unfiltered query are loaded, in three pages
C25_Witness ==
  /\ WindowComplete(filters)
  /\ Len(view.pages) = 3
  /\ Len(defects(view)) = DatasetSize

\* C26: a failing query is retried at most 2 times; the delay before retry
\* n (n = 0, 1, ...) is min(1000 * 2^n, 30000) ms, so the delays never
\* decrease with n and never exceed 30000 ms; when the last retry has
\* failed the query is in the error state and no attempt is running or
\* scheduled
C26_RetryPolicy ==
  /\ st.attempts <= 1 + 2
  /\ Len(st.delays) <= 2
  /\ \A i \in 1..Len(st.delays) :
       /\ st.delays[i] = Min(1000 * 2^(i - 1), 30000)
       /\ Len(st.started) > i => st.started[i + 1] >= st.started[i] + st.delays[i]
  /\ \A n \in 0..MaxAttemptIndex :
       /\ retryDelay(n) <= retryDelay(n + 1)
       /\ retryDelay(n) <= 30000
       /\ retryDelay(n) = Min(1000 * 2^n, 30000)
  /\ st.q.failureCount > 2 =>
       /\ st.q.status = "error"
       /\ st.q.fetchStatus = "idle"
       /\ ~st.q.running
       /\ st.attempts = 3
       /\ ~ENABLED SleepEnds

\* three attempts failed, after sleeps of 1000 and 2000 ms
C26_Witness ==
  /\ st.q.status = "error"
  /\ st.attempts = 3
  /\ st.delays = <<1000, 2000>>
  /\ st.observed

OtherField(field) ==
  IF field = "severity" THEN "aircraft_registration" ELSE "severity"

\* a step of the filter form and App
DraftStep ==
  /\ st'.last.op = "edit" =>
       /\ st'.localFilters[OtherField(st'.last.field)] =
            st.localFilters[OtherField(st'.last.field)]
       /\ filters' = filters
       /\ page' = page
       /\ st'.requests = st.requests
  /\ filters' # filters =>
       \/ st'.last.op = "apply" /\ filters' = st.localFilters
       \/ /\ st'.last.op = "clear"
          /\ filters' = NoFilter
          /\ st'.localFilters = NoFilter

\* C27: editing a field of DefectFilters changes only that field of the
\* draft and changes neither the active filter nor the page and issues no
\* defect fetch; the active filter changes only on Apply, to the draft, or
\* on Clear, to both fields empty with the draft emptied as well
C27_DraftFrame == [][DraftStep]_vars

\* a draft with both fields set, the second edited after the first, while
\* the active filter is another one on page 2
C27_Witness ==
  /\ st.last = [op |-> "edit", field |-> "severity", value |-> "High"]
  /\ st.localFilters = Filter("OH-LZB", "High")
  /\ filters = Filter("OH-LZA", "")
  /\ page = 2

\* in the versions without an effect on the draft, an edit leaves the
\* value in the field edited
EditStep ==
  (st'.last.op = "edit" /\ st.impl # "useAircraftSearch") =>
    st'.localFilters[st'.last.field] = st'.last.value

EditSetsField == [][EditStep]_vars

\* the useEffect App shows the response of a fetch for its current filter,
\* page and page size
Loaded ==
  LET r == Response(filters, st.pagination.page, st.pagination.pageSize)
  IN /\ ~st.loading
     /\ ~st.error
     /\ st.defects = r.data
     /\ st.pagination = PaginationOf(r)

\* a step in which a response arrives: the user's actions remove no call
ResponseStep == \E c \in net : c \notin net'

NoFetchAfterLoadStep == (Loaded /\ ResponseStep) => net' \subseteq net

\* C28: in the useEffect App, once a fetch for the current filter, page and
\* page size has succeeded with a response that echoes the page and page
\* size, no defect fetch is issued until the user changes the filter or the
\* page
C28_NoFetchAfterLoad == [][NoFetchAfterLoadStep]_vars

\* the response of the only outstanding call, when it is for the current
\* filter, page and page size, starts no fetch
OwnResponseStep ==
  (\E c \in net :
     /\ net = {c}
     /\ c = LoadCall(filters, st.pagination)
     /\ c \notin net'
     /\ ~st'.error) =>
    net' = {} /\ Loaded'

EffectDoesNotRetriggerItself == [][OwnResponseStep]_vars

\* the sum of the counts of a severity distribution
RECURSIVE SumOfCounts(_)
SumOfCounts(dist) ==
  IF DOMAIN dist = {} THEN 0
  ELSE LET s == CHOOSE x \in DOMAIN dist : TRUE
       IN dist[s] + SumOfCounts([t \in DOMAIN dist \ {s} |-> dist[t]])

AnalyticsThrown ==
  /\ fx.pc = "thrown"
  /\ Len(fx.requests) = 2

====
